---------------------------- MODULE Spec2Model ----------------------------
(***************************************************************************)
(* Model of dxfStretcher: the zone based stretching engine of              *)
(* core/dxf_processor.py (DxfProcessor) and the reference matching of      *)
(* core/base_analyzer.py (BaseAnalyzer).                                   *)
(*                                                                         *)
(* Coordinates are Python floats in the program.  They are modelled as     *)
(* exact rationals <<n, d>> (d > 0, lowest terms), so every comparison     *)
(* with a tolerance (1e-9, 1e-6) is evaluated exactly; floating point      *)
(* rounding is not modelled.                                               *)
(***************************************************************************)
EXTENDS Integers, Sequences, FiniteSets, TLC

(***************************************************************************)
(* Evaluation helpers.  With(v, F) is F(v) with v evaluated once; Tup(s)   *)
(* is the sequence s with its elements evaluated.                          *)
(***************************************************************************)
With(v, F(_)) == CHOOSE y \in {F(w) : w \in {v}} : TRUE
Tup(s) == s \o <<>>

(***************************************************************************)
(* Rational arithmetic.  The operations are functions so that their        *)
(* arguments are evaluated once.                                           *)
(***************************************************************************)
Rat == Int \X Int

gcd[a \in Nat, b \in Nat] == IF b = 0 THEN a ELSE gcd[b, a % b]

IAbs(n) == IF n < 0 THEN -n ELSE n

Reduce[n \in Int, d \in Int, g \in Int] == <<n \div g, d \div g>>
Norm[n \in Int, d \in Int] ==
    IF d < 0 THEN Reduce[-n, -d, gcd[IAbs(n), IAbs(d)]] ELSE Reduce[n, d, gcd[IAbs(n), IAbs(d)]]

RAddF[p \in Rat, q \in Rat] == Norm[p[1] * q[2] + q[1] * p[2], p[2] * q[2]]
RSubF[p \in Rat, q \in Rat] == Norm[p[1] * q[2] - q[1] * p[2], p[2] * q[2]]
RMulF[p \in Rat, q \in Rat] == Norm[p[1] * q[1], p[2] * q[2]]
RDivF[p \in Rat, q \in Rat] == Norm[p[1] * q[2], p[2] * q[1]]
RLtF[p \in Rat, q \in Rat] == p[1] * q[2] < q[1] * p[2]
RLeF[p \in Rat, q \in Rat] == p[1] * q[2] <= q[1] * p[2]
RMaxF[p \in Rat, q \in Rat] == IF p[1] * q[2] < q[1] * p[2] THEN q ELSE p
RMinF[p \in Rat, q \in Rat] == IF q[1] * p[2] < p[1] * q[2] THEN q ELSE p
RAbsF[p \in Rat] == <<IAbs(p[1]), p[2]>>

R(n) == <<n, 1>>
RAdd(p, q) == RAddF[p, q]
RSub(p, q) == RSubF[p, q]
RMul(p, q) == RMulF[p, q]
RDiv(p, q) == RDivF[p, q]
RLt(p, q) == RLtF[p, q]
RLe(p, q) == RLeF[p, q]
RMax(p, q) == RMaxF[p, q]
RMin(p, q) == RMinF[p, q]
RAbs(p) == RAbsF[p]

\* 1e-9 and 1e-6, held as their reciprocals
InvEps9 == 1000000000
InvEps6 == 1000000

\* q > 1/e and q < 1/e for a rational q and a positive integer e, without
\* forming q[1] * e (which would leave the 32 bit integers of TLC)
GtTolF[q \in Rat, e \in Nat] == q[1] > 0 /\ e > (q[2] \div q[1])
LtTolF[q \in Rat, e \in Nat] == q[1] <= 0 \/ e <= ((q[2] - 1) \div q[1])
GtTol(q, e) == GtTolF[q, e]
LtTol(q, e) == LtTolF[q, e]

\* the least and the greatest element of a non-empty set of rationals
RSetMin(S) == With(S, LAMBDA T : CHOOSE x \in T : \A y \in T : RLe(x, y))
RSetMax(S) == With(S, LAMBDA T : CHOOSE x \in T : \A y \in T : RLe(y, x))

(***************************************************************************)
(* Drawings: a drawing is a sequence of entities.  An entity is a record    *)
(*   kind  : the DXF type                                                  *)
(*   pts   : its defining points <<x, y, z>> (x, y rational, z integer):   *)
(*           LINE start/end, polyline vertices, SPLINE control points,     *)
(*           CIRCLE/ARC/ELLIPSE centre, POINT location                     *)
(*   r     : radius (CIRCLE, ARC), half extent (ELLIPSE), else 0           *)
(*   sa,ea : start and end angle in degrees (ARC; multiples of 90)         *)
(*   bulge : per vertex bulge (polylines), else <<>>                       *)
(***************************************************************************)
None == <<>>
Some(x) == <<x>>

Axes == {"X", "Y"}
Anchors == {"start", "center", "end"}

P(x, y) == <<R(x), R(y), 0>>
Line(x1, y1, x2, y2) ==
    [kind |-> "LINE", pts |-> <<P(x1, y1), P(x2, y2)>>, r |-> R(0), sa |-> 0, ea |-> 0, bulge |-> <<>>]
Circle(cx, cy, rad) ==
    [kind |-> "CIRCLE", pts |-> <<P(cx, cy)>>, r |-> R(rad), sa |-> 0, ea |-> 0, bulge |-> <<>>]
Arc(cx, cy, rad, a0, a1) ==
    [kind |-> "ARC", pts |-> <<P(cx, cy)>>, r |-> R(rad), sa |-> a0, ea |-> a1, bulge |-> <<>>]
Point(x, y) ==
    [kind |-> "POINT", pts |-> <<P(x, y)>>, r |-> R(0), sa |-> 0, ea |-> 0, bulge |-> <<>>]
Polyline(ps, bs) ==
    [kind |-> "LWPOLYLINE", pts |-> ps, r |-> R(0), sa |-> 0, ea |-> 0, bulge |-> bs]
Spline(ps) ==
    [kind |-> "SPLINE", pts |-> ps, r |-> R(0), sa |-> 0, ea |-> 0, bulge |-> <<>>]
Ellipse(cx, cy, rad) ==
    [kind |-> "ELLIPSE", pts |-> <<P(cx, cy)>>, r |-> R(rad), sa |-> 0, ea |-> 0, bulge |-> <<>>]

\* The work drawings on disk.  A path is a sequence of name tokens (the
\* extension .dxf is left out); "plate" is a plate with a
\* hole, "disc" a single circle, "strip" has no curved entity, "bracket"
\* has curved entities at both ends, "edge" is a single horizontal line.
WorkFiles == {<<"plate">>, <<"disc">>, <<"strip">>, <<"bracket">>, <<"edge">>}

Drawing(path) ==
    CASE path = <<"plate">> ->
            << Line(0, 0, 10, 0), Line(0, 4, 10, 4), Circle(5, 2, 1) >>
      [] path = <<"disc">> ->
            << Circle(2, 2, 2) >>
      [] path = <<"strip">> ->
            << Line(0, 0, 10, 4), Point(5, 2),
               Polyline(<<P(0, 0), P(4, 1), P(10, 4)>>, <<0, 0, 0>>) >>
      [] path = <<"bracket">> ->
            << Arc(2, 0, 2, 90, 180), Spline(<<P(2, 1), P(3, 2)>>),
               Line(0, 0, 10, 4), Ellipse(9, 1, 1),
               Polyline(<<P(6, 0), P(7, 0), P(7, 2), P(6, 2)>>, <<0, -1, 0, 0>>) >>
      [] path = <<"edge">> ->
            << Line(0, 0, 6, 0) >>

Readable(path) == path \in WorkFiles

(***************************************************************************)
(* Bounding boxes (ezdxf.bbox.extents), per axis                           *)
(***************************************************************************)
Coord(pt, axis) == IF axis = "X" THEN pt[1] ELSE pt[2]

\* cosine and sine of a multiple of 90 degrees
Cos90(a) == CASE a % 360 = 0 -> 1 [] a % 360 = 90 -> 0 [] a % 360 = 180 -> -1 [] OTHER -> 0
Sin90(a) == CASE a % 360 = 0 -> 0 [] a % 360 = 90 -> 1 [] a % 360 = 180 -> 0 [] OTHER -> -1

\* the angles of an arc's end points and of the quadrant points it passes
ArcAngles(e) ==
    LET last == IF e.ea <= e.sa THEN e.ea + 360 ELSE e.ea
    IN  {a \in {e.sa + 90 * k : k \in 0..4} : a <= last}

\* the coordinates on `axis` of the points that bound entity e
BoundCoords(e, axis) ==
    CASE e.kind \in {"CIRCLE", "ELLIPSE"} ->
            {RSub(Coord(e.pts[1], axis), e.r), RAdd(Coord(e.pts[1], axis), e.r)}
      [] e.kind = "ARC" ->
            {RAdd(Coord(e.pts[1], axis), RMul(e.r, R(IF axis = "X" THEN Cos90(a) ELSE Sin90(a)))) :
                a \in ArcAngles(e)}
      [] OTHER -> {Coord(e.pts[i], axis) : i \in 1..Len(e.pts)}

\* _entity_interval: bbox.extents([entity]) on the axis
_entity_interval(e, axis) ==
    With(BoundCoords(e, axis), LAMBDA cs : <<RSetMin(cs), RSetMax(cs)>>)

\* bbox.extents(msp): the union of the entities' boxes, on both axes
AllCoords(doc, axis) == UNION {BoundCoords(doc[i], axis) : i \in 1..Len(doc)}

Extents(doc) ==
    With(doc, LAMBDA d :
        [minx |-> RSetMin(AllCoords(d, "X")), maxx |-> RSetMax(AllCoords(d, "X")),
         miny |-> RSetMin(AllCoords(d, "Y")), maxy |-> RSetMax(AllCoords(d, "Y"))])

SizeOf(ext, axis) ==
    IF axis = "X" THEN RSub(ext.maxx, ext.minx) ELSE RSub(ext.maxy, ext.miny)

_get_axis_bounds(ext, axis) ==
    IF axis = "X" THEN <<ext.minx, ext.maxx>> ELSE <<ext.miny, ext.maxy>>

(***************************************************************************)
(* Zone Segmenter                                                          *)
(***************************************************************************)
_is_fixed_entity(e) ==
    \/ e.kind \in {"CIRCLE", "ARC", "ELLIPSE", "SPLINE"}
    \/ /\ e.kind \in {"LWPOLYLINE", "POLYLINE"}
       /\ \E i \in 1..Len(e.bulge) : GtTol(R(IAbs(e.bulge[i])), InvEps6)

ZoneLength(z) == RMax(R(0), RSub(z.end_old, z.start_old))

Zone(s, e, t) == [start_old |-> s, end_old |-> e, zone_type |-> t]

\* the interval of entity e clipped to the axis range, as a list of zero or
\* one intervals: non-fixed entities and empty intervals are left out
ClippedInterval(e, axis, axis_min, axis_max) ==
    IF ~_is_fixed_entity(e) THEN <<>>
    ELSE With(_entity_interval(e, axis), LAMBDA iv :
            IF RLt(RMax(axis_min, iv[1]), RMin(axis_max, iv[2]))
            THEN <<<<RMax(axis_min, iv[1]), RMin(axis_max, iv[2])>>>>
            ELSE <<>>)

\* the clipped intervals of the fixed entities from entity i on, in drawing order
RECURSIVE FixedIntervals(_, _, _, _, _)
FixedIntervals(doc, i, axis, axis_min, axis_max) ==
    IF i > Len(doc) THEN <<>>
    ELSE ClippedInterval(doc[i], axis, axis_min, axis_max)
            \o FixedIntervals(doc, i + 1, axis, axis_min, axis_max)

\* list.sort(key=start): a stable sort by the interval's start
RECURSIVE InsertByStart(_, _, _)
InsertByStart(sorted, i, iv) ==
    IF i > Len(sorted) THEN <<iv>>
    ELSE IF RLt(iv[1], sorted[i][1])
         THEN <<iv>> \o SubSeq(sorted, i, Len(sorted))
         ELSE <<sorted[i]>> \o InsertByStart(sorted, i + 1, iv)

RECURSIVE SortPrefix(_, _)
SortPrefix(ivs, n) ==
    IF n = 0 THEN <<>>
    ELSE With(SortPrefix(ivs, n - 1), LAMBDA sorted : InsertByStart(sorted, 1, ivs[n]))

SortByStart(ivs) == SortPrefix(ivs, Len(ivs))

\* one step of the merge loop: an interval starting after the last merged
\* end opens a new merged interval, any other one extends the last
MergeStep(merged, iv) ==
    IF Len(merged) = 0 \/ RLt(merged[Len(merged)][2], iv[1])
    THEN Append(merged, iv)
    ELSE SubSeq(merged, 1, Len(merged) - 1)
            \o <<<<merged[Len(merged)][1], RMax(merged[Len(merged)][2], iv[2])>>>>

RECURSIVE MergePrefix(_, _)
MergePrefix(ivs, n) ==
    IF n = 0 THEN <<>>
    ELSE With(MergePrefix(ivs, n - 1), LAMBDA merged : MergeStep(merged, ivs[n]))

MergeIntervals(ivs) == MergePrefix(ivs, Len(ivs))

\* the walk over the first n merged intervals: <<zones, cursor>>
WalkStep(w, iv) ==
    << (IF RLt(w[2], iv[1]) THEN Append(w[1], Zone(w[2], iv[1], "stretch")) ELSE w[1])
            \o <<Zone(iv[1], iv[2], "fixed")>>,
       RMax(w[2], iv[2]) >>

RECURSIVE WalkZones(_, _, _)
WalkZones(merged, n, axis_min) ==
    IF n = 0 THEN <<<<>>, axis_min>>
    ELSE With(WalkZones(merged, n - 1, axis_min), LAMBDA w : WalkStep(w, merged[n]))

\* the end of the walk: the trailing stretch zone, and the single stretch
\* zone of a drawing without fixed intervals
CloseZones(w, axis_min, axis_max) ==
    IF RLt(w[2], axis_max)
    THEN Append(w[1], Zone(w[2], axis_max, "stretch"))
    ELSE IF w[1] = <<>> THEN <<Zone(axis_min, axis_max, "stretch")>> ELSE w[1]

ZonesWithin(doc, axis, axis_min, axis_max) ==
    With(MergeIntervals(SortByStart(FixedIntervals(doc, 1, axis, axis_min, axis_max))),
         LAMBDA merged :
            With(WalkZones(merged, Len(merged), axis_min),
                 LAMBDA w : CloseZones(w, axis_min, axis_max)))

\* _get_zones without the cache: the zones of doc on axis within ext
ComputeZones(doc, ext, axis) ==
    With(_get_axis_bounds(ext, axis), LAMBDA b :
        ZonesWithin(doc, axis, b[1], IF RLt(b[2], b[1]) THEN b[1] ELSE b[2]))

\* _get_zones: a cached, non-empty list is returned as it is
_get_zones(cache, doc, ext, axis) ==
    IF axis \in DOMAIN cache /\ cache[axis] # <<>>
    THEN cache[axis]
    ELSE ComputeZones(doc, ext, axis)

(***************************************************************************)
(* Mapping Builder                                                         *)
(***************************************************************************)
RECURSIVE StretchSum(_, _)
StretchSum(zones, i) ==
    IF i > Len(zones) THEN R(0)
    ELSE RAdd(IF zones[i].zone_type = "stretch" THEN ZoneLength(zones[i]) ELSE R(0),
              StretchSum(zones, i + 1))

StretchTotal(zones) == StretchSum(zones, 1)

\* the new length _build_mapping gives a zone
\* a variant that spreads delta over the zones of both kinds
NewLengthAnyZone(zone, delta, stretch_total) ==
    IF RLt(R(0), stretch_total)
    THEN RAdd(ZoneLength(zone), RMul(delta, RDiv(ZoneLength(zone), stretch_total)))
    ELSE ZoneLength(zone)

\* a variant that gives every stretch zone the whole of delta
NewLengthWholeDelta(zone, delta, stretch_total) ==
    IF zone.zone_type = "stretch" /\ RLt(R(0), stretch_total)
    THEN RAdd(ZoneLength(zone), delta)
    ELSE ZoneLength(zone)

NewLength(zone, delta, stretch_total) ==
    IF zone.zone_type = "stretch" /\ RLt(R(0), stretch_total)
    THEN RAdd(ZoneLength(zone), RMul(delta, RDiv(ZoneLength(zone), stretch_total)))
    ELSE ZoneLength(zone)

Segment(zone, start_new, new_length) ==
    [start_old |-> zone.start_old, end_old |-> zone.end_old, zone_type |-> zone.zone_type,
     start_new |-> start_new, end_new |-> RAdd(start_new, new_length)]

\* the loop of _build_mapping over the first n zones: <<mapping, current_new>>
MappingStep(m, zone, delta, stretch_total) ==
    With(NewLength(zone, delta, stretch_total), LAMBDA new_length :
        <<Append(m[1], Segment(zone, m[2], new_length)), RAdd(m[2], new_length)>>)

RECURSIVE MappingLoop(_, _, _, _, _)
MappingLoop(zones, n, axis_min, delta, stretch_total) ==
    IF n = 0 THEN <<<<>>, axis_min>>
    ELSE With(MappingLoop(zones, n - 1, axis_min, delta, stretch_total),
              LAMBDA m : MappingStep(m, zones[n], delta, stretch_total))

Delta(ext, axis, target_length) == RSub(target_length, SizeOf(ext, axis))

\* a variant that raises only for a negative stretch total
NoElasticRegionNegative(zones, ext, axis, target_length) ==
    /\ GtTol(RAbs(Delta(ext, axis, target_length)), InvEps9)
    /\ RLt(StretchTotal(zones), R(0))

\* _build_mapping raises when there is a length change and nothing to stretch
NoElasticRegion(zones, ext, axis, target_length) ==
    /\ GtTol(RAbs(Delta(ext, axis, target_length)), InvEps9)
    /\ RLe(StretchTotal(zones), R(0))

_build_mapping(zones, ext, axis, target_length) ==
    With(<<Delta(ext, axis, target_length), StretchTotal(zones)>>, LAMBDA ds :
        MappingLoop(zones, Len(zones), _get_axis_bounds(ext, axis)[1], ds[1], ds[2])[1])

SegLength(seg) == RMax(R(0), RSub(seg.end_old, seg.start_old))
length_new(seg) == RMax(R(0), RSub(seg.end_new, seg.start_new))

(***************************************************************************)
(* Coordinate Mapper                                                       *)
(***************************************************************************)
\* the value a segment that holds `value` maps it to
\* a variant that moves every value of a segment by the segment's offset
MapInSegmentByOffset(value, seg) == RAdd(value, RSub(seg.start_new, seg.start_old))

MapInSegment(value, seg) ==
    IF LtTol(SegLength(seg), InvEps9)
    THEN RAdd(value, RSub(seg.start_new, seg.start_old))
    ELSE RAdd(seg.start_new,
              RMul(RDiv(RSub(value, seg.start_old), SegLength(seg)), length_new(seg)))

RECURSIVE MapScan(_, _, _)
MapScan(value, mapping, i) ==
    IF i > Len(mapping)
    THEN RAdd(value, RSub(mapping[Len(mapping)].end_new, mapping[Len(mapping)].end_old))
    ELSE IF GtTol(RSub(mapping[i].start_old, value), InvEps9)
         THEN MapScan(value, mapping, i + 1)
         ELSE IF ~GtTol(RSub(value, mapping[i].end_old), InvEps9)
              THEN MapInSegment(value, mapping[i])
              ELSE MapScan(value, mapping, i + 1)

_map_value(value, mapping) == With(value, LAMBDA v : MapScan(v, mapping, 1))

(***************************************************************************)
(* Geometry Transformer and Anchor Re-positioner                           *)
(***************************************************************************)
SetCoord(pt, axis, v) == IF axis = "X" THEN <<v, pt[2], pt[3]>> ELSE <<pt[1], v, pt[3]>>

\* _map_line, _map_polyline, _map_spline, _map_circle_arc, _map_point: every
\* defining point's coordinate on the axis goes through _map_value
MapPoints(e, mapping, axis) ==
    [e EXCEPT !.pts = Tup([i \in 1..Len(e.pts) |->
        SetCoord(e.pts[i], axis, _map_value(Coord(e.pts[i], axis), mapping))])]

\* entity.transform(Matrix44.translate(..)): a translation along the axis
Translate(e, axis, offset) ==
    [e EXCEPT !.pts = Tup([i \in 1..Len(e.pts) |->
        SetCoord(e.pts[i], axis, RAdd(Coord(e.pts[i], axis), offset))])]

_map_generic(e, mapping, axis) ==
    With(RSub(mapping[1].start_new, mapping[1].start_old), LAMBDA offset :
        Translate(e, axis, offset))

MapEntity(e, mapping, axis) ==
    IF e.kind \in {"LINE", "LWPOLYLINE", "POLYLINE", "SPLINE", "CIRCLE", "ARC", "POINT"}
    THEN MapPoints(e, mapping, axis)
    ELSE _map_generic(e, mapping, axis)

_apply_mapping(doc, mapping, axis) ==
    Tup([i \in 1..Len(doc) |-> MapEntity(doc[i], mapping, axis)])

AnchorValue(ext, axis, anchor) ==
    IF anchor = "center"
    THEN RDiv(RAdd(_get_axis_bounds(ext, axis)[1], _get_axis_bounds(ext, axis)[2]), R(2))
    ELSE IF anchor \in {"end", "top", "right"} THEN _get_axis_bounds(ext, axis)[2]
    ELSE _get_axis_bounds(ext, axis)[1]

\* a variant that takes axis_min as the anchor, whatever anchor is asked for
AnchorShiftFromMin(mapping, ext, axis, anchor) ==
    With(_get_axis_bounds(ext, axis)[1], LAMBDA anchor_value :
        RSub(anchor_value, _map_value(anchor_value, mapping)))

AnchorShift(mapping, ext, axis, anchor) ==
    With(AnchorValue(ext, axis, anchor), LAMBDA anchor_value :
        RSub(anchor_value, _map_value(anchor_value, mapping)))

_apply_anchor_shift(doc, mapping, ext, axis, anchor) ==
    With(AnchorShift(mapping, ext, axis, anchor), LAMBDA shift :
        IF LtTol(RAbs(shift), InvEps6)
        THEN doc
        ELSE Tup([i \in 1..Len(doc) |-> Translate(doc[i], axis, shift)]))

(***************************************************************************)
(* DxfProcessor: state and operations                                      *)
(***************************************************************************)
VARIABLES
    last_doc,     \* None or Some(the entities of the loaded document)
    last_path,    \* None or the path of the last load() call
    extents,      \* None or Some(the extents computed by load / stretch_both_axes)
    zone_cache,   \* axis -> zones, for the axes cached so far
    call,         \* the last call of the processor and its outcome
    steps,        \* the _get_zones / _build_mapping results of the last call
    nops,         \* stretch calls since the last successful load
    bases,        \* BaseAnalyzer.bases: korpus_number -> BaseInfo
    matched,      \* the last call of the analyzer and its outcome
    work_folder,  \* the names of the files in the work folder on disk
    service       \* the fields of the FlatPatternService that owns the processor

processor_vars == <<last_doc, last_path, extents, zone_cache, call, steps, nops>>
analyzer_vars == <<bases, matched>>
vars ==
    <<last_doc, last_path, extents, zone_cache, call, steps, nops, bases, matched, work_folder,
      service>>

\* stretch calls explored per load
MaxOps == 2

\* the target lengths and paths the calls are made with
Targets == {1, 4, 12}
AnchorPairs == {<<"start", "start">>, <<"center", "end">>}

\* bbox.extents(msp) of each work drawing as read from disk
FileExtents == [path \in WorkFiles |-> Extents(Drawing(path))]

NoCache == [a \in {} |-> <<>>]

\* the fields of a FlatPatternService beside its processor
Session(current_info, current_dxf, stretched_path, current_axis) ==
    [current_info |-> current_info, current_dxf |-> current_dxf,
     stretched_path |-> stretched_path, current_axis |-> current_axis]

\* FlatPatternService.__init__
NoSession == Session(None, None, None, "X")

\* the DxfInfo load() returns: the path and the sizes of the extents
DxfInfo(path, ext) ==
    [source_path |-> path, length_x |-> SizeOf(ext, "X"), width_y |-> SizeOf(ext, "Y")]

\* a variant that keeps the zones of one axis only
CachePutSingle(cache, axis, zones) == [a \in {axis} |-> zones]

\* self.zone_cache[axis] = zones
CachePut(cache, axis, zones) == [a \in (DOMAIN cache) \cup {axis} |-> IF a = axis THEN zones ELSE cache[a]]

\* pathlib: last_path.with_name(f"{last_path.stem}_stretch.dxf")
DefaultOutput(path) == Append(path, "_stretch")

Call(op, axis, targets, anchors, result, ret, wrote) ==
    [op |-> op, axis |-> axis, targets |-> targets, anchors |-> anchors,
     result |-> result, ret |-> ret, wrote |-> wrote]

\* one pass of the pipeline on one axis: _get_zones, _build_mapping,
\* _apply_mapping, _apply_anchor_shift.  raised is TRUE when _build_mapping
\* raised; then the document is not changed.
PassResult(doc, ext, cache, axis, target_length, anchor, zones, raised, mapping, after) ==
    [raised |-> raised,
     cache |-> CachePut(cache, axis, zones),
     doc |-> after,
     step |-> [axis |-> axis, bounds |-> _get_axis_bounds(ext, axis), zones |-> zones,
               cached |-> (axis \in DOMAIN cache), target |-> target_length,
               anchor |-> anchor, mapping |-> mapping, raised |-> raised,
               before |-> doc]]

\* BaseAnalyzer.__init__ and the record of an analyzer call
NoBases == [k \in {} |-> <<>>]
Matched(op, arg, result, value) ==
    [op |-> op, arg |-> arg, result |-> result, value |-> value, listed |-> {}]

\* the KeyError of match_radius_to_base: its message lists the keys of bases
KeyErrorOutcome(arg, registry) ==
    [op |-> "match_radius_to_base", arg |-> arg, result |-> "UnknownAssembly", value |-> None,
     listed |-> DOMAIN registry]

AxisPass(doc, ext, cache, axis, target_length, anchor) ==
    With(_get_zones(cache, doc, ext, axis), LAMBDA zones :
        IF NoElasticRegion(zones, ext, axis, target_length)
        THEN PassResult(doc, ext, cache, axis, target_length, anchor, zones, TRUE, <<>>, doc)
        ELSE With(_build_mapping(zones, ext, axis, target_length), LAMBDA mapping :
                With(_apply_mapping(doc, mapping, axis), LAMBDA mapped :
                    With(_apply_anchor_shift(mapped, mapping, ext, axis, anchor), LAMBDA after :
                        PassResult(doc, ext, cache, axis, target_length, anchor,
                                   zones, FALSE, mapping, after)))))

Init ==
    /\ last_doc = None
    /\ last_path = None
    /\ extents = None
    /\ zone_cache = NoCache
    /\ call = Call("init", "", <<>>, <<>>, "ok", None, None)
    /\ steps = <<>>
    /\ nops = 0
    /\ bases = NoBases
    /\ matched = Matched("init", <<>>, "ok", None)
    /\ work_folder = {}
    /\ service = NoSession

\* DxfProcessor.load(path)
Load(path) ==
    /\ UNCHANGED <<analyzer_vars, work_folder>>
    /\ last_path' = path
    /\ steps' = <<>>
    /\ IF Readable(path)
       THEN /\ last_doc' = Some(Drawing(path))
            /\ extents' = Some(FileExtents[path])
            /\ zone_cache' = NoCache
            /\ nops' = 0
            /\ call' = Call("load", "", <<>>, <<>>, "ok", path, None)
       ELSE /\ call' = Call("load", "", <<>>, <<>>, "LoadError", None, None)
            /\ UNCHANGED <<last_doc, extents, zone_cache, nops>>

\* a variant that lets a zero extent pass when the target is zero too
DegenerateAxisUnlessSame(size, target_length) == size = R(0) /\ size # target_length

\* if size == 0: raise ValueError, before size is compared with the target
DegenerateAxis(size, target_length) == size = R(0)

\* DxfProcessor.stretch(target_length, axis, anchor), save_path not given
Stretch(target, axis, anchor) ==
    /\ UNCHANGED <<analyzer_vars, work_folder>>
    /\ nops < MaxOps
    /\ nops' = nops + 1
    /\ UNCHANGED <<last_path, extents>>
    /\ IF last_doc = None \/ extents = None
       THEN /\ call' = Call("stretch", axis, <<R(target)>>, <<anchor>>, "NotLoaded", None, None)
            /\ steps' = <<>>
            /\ UNCHANGED <<last_doc, zone_cache>>
       ELSE IF DegenerateAxis(SizeOf(extents[1], axis), R(target))
       THEN /\ call' = Call("stretch", axis, <<R(target)>>, <<anchor>>, "DegenerateAxis", None, None)
            /\ steps' = <<>>
            /\ UNCHANGED <<last_doc, zone_cache>>
       ELSE IF SizeOf(extents[1], axis) = R(target)
       THEN /\ call' = Call("stretch", axis, <<R(target)>>, <<anchor>>, "same", last_path, None)
            /\ steps' = <<>>
            /\ UNCHANGED <<last_doc, zone_cache>>
       ELSE \E pass \in {AxisPass(last_doc[1], extents[1], zone_cache, axis, R(target), anchor)} :
            /\ zone_cache' = pass.cache
            /\ steps' = <<pass.step>>
            /\ last_doc' = Some(pass.doc)
            /\ call' = IF pass.raised
                       THEN Call("stretch", axis, <<R(target)>>, <<anchor>>,
                                 "NoElasticRegion", None, None)
                       ELSE Call("stretch", axis, <<R(target)>>, <<anchor>>, "ok",
                                 DefaultOutput(last_path), DefaultOutput(last_path))

\* a variant of the X stage that keeps the extents of the loaded document
StageXStaleExtents(doc, ext, cache, tx, ax) ==
    IF ~GtTol(RAbs(RSub(SizeOf(ext, "X"), tx)), InvEps6)
    THEN [ran |-> FALSE, raised |-> FALSE, doc |-> doc, ext |-> ext, cache |-> cache, steps |-> <<>>]
    ELSE With(AxisPass(doc, ext, cache, "X", tx, ax), LAMBDA px :
            [ran |-> TRUE, raised |-> px.raised, doc |-> px.doc, ext |-> ext,
             cache |-> px.cache, steps |-> <<px.step>>])

\* the X stage of stretch_both_axes: the pass on X and the extents recomputed
\* from the transformed document; skipped (ran = FALSE) when the length
\* already matches
StageX(doc, ext, cache, tx, ax) ==
    IF ~GtTol(RAbs(RSub(SizeOf(ext, "X"), tx)), InvEps6)
    THEN [ran |-> FALSE, raised |-> FALSE, doc |-> doc, ext |-> ext, cache |-> cache, steps |-> <<>>]
    ELSE With(AxisPass(doc, ext, cache, "X", tx, ax), LAMBDA px :
            [ran |-> TRUE, raised |-> px.raised, doc |-> px.doc,
             ext |-> IF px.raised THEN ext ELSE Extents(px.doc),
             cache |-> px.cache, steps |-> <<px.step>>])

\* the Y stage, on the document, extents and cache the X stage left;
\* needs_y_stretch was computed from ext, the extents at the call
StageY(sx, ext, ty, ay) ==
    IF ~GtTol(RAbs(RSub(SizeOf(ext, "Y"), ty)), InvEps6)
    THEN [ran |-> FALSE, raised |-> FALSE, doc |-> sx.doc, ext |-> sx.ext, cache |-> sx.cache,
          steps |-> sx.steps]
    ELSE With(AxisPass(sx.doc, sx.ext, sx.cache, "Y", ty, ay), LAMBDA py :
            [ran |-> TRUE, raised |-> py.raised, doc |-> py.doc, ext |-> sx.ext,
             cache |-> py.cache, steps |-> Append(sx.steps, py.step)])

\* DxfProcessor.stretch_both_axes(target_length_x, target_width_y, anchor_x,
\* anchor_y), save_path not given
StretchBothAxes(tx, ty, ax, ay) ==
    /\ UNCHANGED <<analyzer_vars, work_folder>>
    /\ nops < MaxOps
    /\ nops' = nops + 1
    /\ UNCHANGED last_path
    /\ IF last_doc = None \/ extents = None
       THEN /\ call' = Call("stretch_both_axes", "XY", <<R(tx), R(ty)>>, <<ax, ay>>, "NotLoaded", None, None)
            /\ steps' = <<>>
            /\ UNCHANGED <<last_doc, extents, zone_cache>>
       ELSE IF /\ ~GtTol(RAbs(RSub(SizeOf(extents[1], "X"), R(tx))), InvEps6)
               /\ ~GtTol(RAbs(RSub(SizeOf(extents[1], "Y"), R(ty))), InvEps6)
       THEN /\ call' = Call("stretch_both_axes", "XY", <<R(tx), R(ty)>>, <<ax, ay>>,
                            "same", last_path, None)
            /\ steps' = <<>>
            /\ UNCHANGED <<last_doc, extents, zone_cache>>
       ELSE \E sx \in {StageX(last_doc[1], extents[1], zone_cache, R(tx), ax)} :
            IF sx.raised
            THEN \* _build_mapping raised in the X stage: nothing was transformed
                 /\ call' = Call("stretch_both_axes", "XY", <<R(tx), R(ty)>>, <<ax, ay>>,
                                 "NoElasticRegion", None, None)
                 /\ steps' = sx.steps
                 /\ zone_cache' = sx.cache
                 /\ UNCHANGED <<last_doc, extents>>
            ELSE \E sy \in {StageY(sx, extents[1], R(ty), ay)} :
                 \* when _build_mapping raises in the Y stage the X stage stays
                 \* applied to the document in memory and nothing is saved
                 /\ call' = IF sy.raised
                            THEN Call("stretch_both_axes", "XY", <<R(tx), R(ty)>>, <<ax, ay>>,
                                      "NoElasticRegion", None, None)
                            ELSE Call("stretch_both_axes", "XY", <<R(tx), R(ty)>>, <<ax, ay>>,
                                      "ok", DefaultOutput(last_path), DefaultOutput(last_path))
                 /\ steps' = sy.steps
                 /\ zone_cache' = sy.cache
                 /\ last_doc' = Some(sy.doc)
                 /\ extents' = Some(sy.ext)

Next ==
    \/ \E path \in WorkFiles : Load(path) /\ UNCHANGED service
    \/ \E target \in Targets, axis \in Axes, anchor \in Anchors :
          Stretch(target, axis, anchor) /\ UNCHANGED service
    \/ \E tx \in Targets, ty \in Targets, a \in AnchorPairs :
          StretchBothAxes(tx, ty, a[1], a[2]) /\ UNCHANGED service

Spec == Init /\ [][Next]_vars

\* load and stretch with the targets 0 and 6 among the inputs
ZeroTargets == {0, 6}
NextDegenerate ==
    \/ \E path \in WorkFiles : Load(path) /\ UNCHANGED service
    \/ \E target \in ZeroTargets, axis \in Axes, anchor \in Anchors :
          Stretch(target, axis, anchor) /\ UNCHANGED service

SpecDegenerate == Init /\ [][NextDegenerate]_vars

\* load and stretch with a file ezdxf.readfile raises for among the paths
UnreadableFile == <<"missing">>
NextReload ==
    \/ \E path \in WorkFiles \cup {UnreadableFile} : Load(path) /\ UNCHANGED service
    \/ \E target \in {4, 12}, axis \in Axes : Stretch(target, axis, "start") /\ UNCHANGED service

SpecReload == Init /\ [][NextReload]_vars

(***************************************************************************)
(* FlatPatternService: one session of the window, on its own processor     *)
(***************************************************************************)
\* Path.exists(): the file readfile raises for is a file that is not there
Exists(path) == path # UnreadableFile

\* FlatPatternService.measure(file_path, axis): the fields are set once
\* DxfProcessor.load has returned
ServiceMeasure(file_path, axis) ==
    /\ Load(file_path)
    /\ service' = IF Readable(file_path)
                  THEN Session(Some(DxfInfo(file_path, FileExtents[file_path])),
                               Some(file_path), None, axis)
                  ELSE service

\* FlatPatternService.stretch(target_length, axis, anchor)
ServiceStretch(target, axis, anchor) ==
    IF service.current_info = None \/ service.current_dxf = None
    THEN /\ call' = Call("stretch", axis, <<R(target)>>, <<anchor>>, "NotMeasured", None, None)
         /\ steps' = <<>>
         /\ UNCHANGED <<last_doc, last_path, extents, zone_cache, nops, analyzer_vars,
                        work_folder, service>>
    ELSE /\ Stretch(target, axis, anchor)
         /\ service' = IF call'.ret = None THEN service
                       ELSE [service EXCEPT !.stretched_path = Some(call'.ret)]

\* a variant of clear() that keeps the measured drawing
ClearedKeepingInfo(session) == [session EXCEPT !.stretched_path = None]

\* the fields after FlatPatternService.clear()
Cleared(session) ==
    [session EXCEPT !.current_info = None, !.current_dxf = None, !.stretched_path = None]

\* FlatPatternService.save_stretched(output_path)
ServiceSaveStretched(output_path) ==
    /\ steps' = <<>>
    /\ UNCHANGED <<last_doc, last_path, extents, zone_cache, nops, analyzer_vars, service>>
    /\ IF service.stretched_path = None \/ ~Exists(service.stretched_path[1])
       THEN /\ call' = Call("save_stretched", "", <<>>, <<>>, "NotStretched", None, None)
            /\ UNCHANGED work_folder
       ELSE /\ call' = Call("save_stretched", "", <<>>, <<>>, "ok", output_path, output_path)
            /\ work_folder' = work_folder \cup {output_path}

\* FlatPatternService.clear()
ServiceClear ==
    /\ service' = Cleared(service)
    /\ call' = Call("clear", "", <<>>, <<>>, "ok", None, None)
    /\ steps' = <<>>
    /\ UNCHANGED <<last_doc, last_path, extents, zone_cache, nops, analyzer_vars, work_folder>>

NextService ==
    \/ \E file_path \in WorkFiles \cup {UnreadableFile}, axis \in Axes :
          ServiceMeasure(file_path, axis)
    \/ \E target \in {4, 12}, axis \in Axes : ServiceStretch(target, axis, "start")
    \/ ServiceSaveStretched(<<"saved">>)
    \/ ServiceClear

SpecService == Init /\ [][NextService]_vars

\* the kinds _apply_mapping hands to a mapper that reads the points of the
\* entity one by one
PointwiseKinds == {"LINE", "LWPOLYLINE", "POLYLINE", "SPLINE", "CIRCLE", "ARC", "POINT"}

\* the entity a mapper leaves when reading its point j raises: _map_polyline
\* assigns each vertex as it goes, the other mappers assign after they have
\* read and mapped every point
MapEntityUntil(e, mapping, axis, j) ==
    IF e.kind \in {"LWPOLYLINE", "POLYLINE"}
    THEN [e EXCEPT !.pts = Tup([i \in 1..Len(e.pts) |->
            IF i < j
            THEN SetCoord(e.pts[i], axis, _map_value(Coord(e.pts[i], axis), mapping))
            ELSE e.pts[i]])]
    ELSE e

\* _apply_mapping when the mapper of entity k raises at its point j: the
\* exception is caught and the loop continues
ApplyMappingFaulty(doc, mapping, axis, k, j) ==
    Tup([i \in 1..Len(doc) |->
        IF i = k THEN MapEntityUntil(doc[i], mapping, axis, j)
        ELSE MapEntity(doc[i], mapping, axis)])

\* stretch() of a drawing in which reading point j of entity k raises
StretchFaulty(target, axis, anchor, k, j) ==
    /\ UNCHANGED <<analyzer_vars, work_folder>>
    /\ nops < MaxOps
    /\ last_doc # None /\ extents # None
    /\ k \in 1..Len(last_doc[1])
    /\ last_doc[1][k].kind \in PointwiseKinds
    /\ j \in 1..Len(last_doc[1][k].pts)
    /\ ~DegenerateAxis(SizeOf(extents[1], axis), R(target))
    /\ SizeOf(extents[1], axis) # R(target)
    /\ nops' = nops + 1
    /\ UNCHANGED <<last_path, extents>>
    /\ \E zones \in {_get_zones(zone_cache, last_doc[1], extents[1], axis)} :
        /\ ~NoElasticRegion(zones, extents[1], axis, R(target))
        /\ \E mapping \in {_build_mapping(zones, extents[1], axis, R(target))} :
           \E mapped \in {ApplyMappingFaulty(last_doc[1], mapping, axis, k, j)} :
           \E after \in {_apply_anchor_shift(mapped, mapping, extents[1], axis, anchor)} :
            /\ zone_cache' = CachePut(zone_cache, axis, zones)
            /\ last_doc' = Some(after)
            /\ steps' = <<[axis |-> axis, mapping |-> mapping, raised |-> FALSE,
                           before |-> last_doc[1], fault |-> <<k, j>>, mapped |-> mapped]>>
            /\ call' = Call("stretch", axis, <<R(target)>>, <<anchor>>, "ok",
                            DefaultOutput(last_path), DefaultOutput(last_path))

\* the entity and the point whose reading raises are drawn up to these bounds
MaxEntities == 5
MaxPoints == 4
NextFaulty ==
    \/ \E path \in WorkFiles : Load(path) /\ UNCHANGED service
    \/ \E target \in {4, 12}, axis \in Axes, anchor \in {"start", "center"},
          k \in 1..MaxEntities, j \in 1..MaxPoints :
          StretchFaulty(target, axis, anchor, k, j) /\ UNCHANGED service

SpecFaulty == Init /\ [][NextFaulty]_vars

(***************************************************************************)
(* _map_value on its own: the mappings and the values it is applied to.    *)
(* A mapping has two segments that follow each other in the old domain; a  *)
(* segment of old length 0 stands for a degenerate zone (old length below  *)
(* 1e-9), a segment whose end_new lies before its start_new is what        *)
(* _build_mapping stores for a shrink below the fixed total.               *)
(***************************************************************************)
MapperSegment(start_old, old_length, zone_type, start_new, new_length) ==
    [start_old |-> R(start_old), end_old |-> R(start_old + old_length), zone_type |-> zone_type,
     start_new |-> R(start_new), end_new |-> R(start_new + new_length)]

MapperMappings ==
    {<<MapperSegment(0, a, t[1], s, n1), MapperSegment(a, b, t[2], s + n1, n2)>> :
        a \in {0, 2}, b \in {0, 2}, s \in {0, 1}, n1 \in {-1, 0, 3}, n2 \in {-1, 0, 3},
        t \in {<<"stretch", "fixed">>, <<"fixed", "stretch">>}}

MapperValues == {R(-1), R(0), R(1), R(2), R(3), R(4), R(5)}

InitMapper ==
    /\ last_doc = None
    /\ last_path = None
    /\ extents = None
    /\ zone_cache = NoCache
    /\ call = Call("init", "", <<>>, <<>>, "ok", None, None)
    /\ steps \in {<<[value |-> v, mapping |-> m, mapped |-> None]>> :
                    v \in MapperValues, m \in MapperMappings}
    /\ nops = 0
    /\ bases = NoBases
    /\ matched = Matched("init", <<>>, "ok", None)
    /\ work_folder = {}
    /\ service = NoSession

\* _map_value(value, mapping) on the inputs drawn
MapValue ==
    /\ steps[1].mapped = None
    /\ steps' = <<[steps[1] EXCEPT !.mapped = Some(_map_value(steps[1].value, steps[1].mapping))]>>
    /\ call' = Call("_map_value", "", <<>>, <<>>, "ok", None, None)
    /\ UNCHANGED <<last_doc, last_path, extents, zone_cache, nops, bases, matched, work_folder>>

NextMapper == MapValue /\ UNCHANGED service

SpecMapper == InitMapper /\ [][NextMapper]_vars

(***************************************************************************)
(* BaseAnalyzer: file names, reference drawings, the registry              *)
(***************************************************************************)
\* A file name is the sequence of its pieces: words, single digits and ".".
\* The Cyrillic words of the names are written in Latin letters.
Digits == {"0", "1", "2", "3", "4", "5", "6", "7", "8", "9"}

\* re.IGNORECASE, for the pieces the patterns name
Lower(piece) ==
    CASE piece \in {"KORP", "Korp"} -> "korp"
      [] piece = "G" -> "g"
      [] OTHER -> piece

\* the length of the longest run of digits that starts at name[i]
RECURSIVE DigitRun(_, _)
DigitRun(name, i) ==
    IF i <= Len(name) /\ name[i] \in Digits THEN 1 + DigitRun(name, i + 1) ELSE 0

Leftmost(S) == CHOOSE i \in S : \A j \in S : i <= j

\* re.search(r'korp(\d+)', filename, re.IGNORECASE): the positions it matches at
KorpMatches(name) ==
    {i \in 1..Len(name) : Lower(name[i]) = "korp" /\ DigitRun(name, i + 1) >= 1}

KorpGroup(name, i) == SubSeq(name, i + 1, i + DigitRun(name, i + 1))

\* re.search(r'G\d*\.?(\d+)', filename, re.IGNORECASE) at position i: after
\* the digits that follow G, a "." and more digits give the group; without
\* them \d* gives its last digit back to the group
GDotDigits(name, i) ==
    /\ i + 1 + DigitRun(name, i + 1) <= Len(name)
    /\ name[i + 1 + DigitRun(name, i + 1)] = "."
    /\ DigitRun(name, i + 2 + DigitRun(name, i + 1)) >= 1

GMatches(name) ==
    {i \in 1..Len(name) :
        /\ Lower(name[i]) = "g"
        /\ (GDotDigits(name, i) \/ DigitRun(name, i + 1) >= 1)}

GGroup(name, i) ==
    With(DigitRun(name, i + 1), LAMBDA n :
        IF GDotDigits(name, i)
        THEN SubSeq(name, i + 2 + n, i + 1 + n + DigitRun(name, i + 2 + n))
        ELSE <<name[i + n]>>)

\* None when the name holds no korpus number (ValueError)
_extract_korpus_number(filename) ==
    IF KorpMatches(filename) # {}
    THEN Some(<<"korp">> \o KorpGroup(filename, Leftmost(KorpMatches(filename))))
    ELSE IF GMatches(filename) # {}
    THEN Some(<<"korp">> \o GGroup(filename, Leftmost(GMatches(filename))))
    ELSE None

\* the files a folder can hold
BaseName1 == <<"Osnovanie", " ", "G", "1", ".", "korp", "1", ".", "dxf">>
BaseName2 == <<"Osnovanie", " ", "G", "1", ".", "KORP", "2", ".", "DXF">>
BaseName3 == <<"Osnovanie", " ", "G", "2", ".", "3", ".", "dxf">>
BaseName4 == <<"Osnovanie", " ", "G", "1", ".", "korp", "1", ".", "DXF">>
BaseName5 == <<"Osnovanie", " ", "plita", ".", "dxf">>
BaseName6 == <<"Osnovanie", " ", "G", "1", ".", "korp", "6", ".", "dxf">>
WorkName1 == <<"Vneshnij", " ", "radius", " ", "G", "1", ".", "korp", "1", ".", "dxf">>
WorkName2 == <<"Vnutrennij", " ", "radius", " ", "G", "1", ".", "korp", "1", ".", "dxf">>
WorkName3 == <<"vneshnij", " ", "radius", " ", "korp", "2", ".", "dxf">>
WorkName4 == <<"Vnutrennij", " ", "radius", " ", "G", "4", ".", "dxf">>
WorkName5 == <<"Vnutrennij", " ", "radius", ".", "dxf">>
WorkName6 == <<"Vnutrennij", " ", "radius", " ", "Korp", "2", ".", "dxf">>

FolderFiles == {BaseName1, BaseName2, BaseName3, BaseName4, BaseName5, BaseName6, WorkName1}
RadiusFiles == {WorkName1, WorkName2, WorkName3, WorkName4, WorkName5, WorkName6}

\* ezdxf.readfile raises for a file that is no DXF document
BaseReadable(file_path) == file_path # BaseName6

\* the modelspace ezdxf.readfile gives for a file of a folder
BaseDrawing(file_path) ==
    CASE file_path = BaseName1 ->
            << Arc(0, 0, 5, 0, 90), Arc(0, 0, 30, 0, 170), Line(0, 0, 50, 0), Arc(0, 0, 50, 0, 180) >>
      [] file_path = BaseName2 ->
            << Arc(0, 0, 20, 270, 90), Arc(0, 0, 40, 0, 90), Arc(1, 0, 40, 90, 180) >>
      [] file_path = BaseName3 ->
            << Arc(0, 0, 25, 0, 90), Circle(0, 0, 60) >>
      [] file_path = BaseName4 ->
            << Arc(0, 0, 8, 0, 90), Arc(0, 0, 10, 0, 90) >>
      [] file_path = BaseName5 ->
            << Arc(0, 0, 12, 0, 90), Arc(0, 0, 14, 0, 90) >>
      [] OTHER ->
            << Line(0, 0, 150, 0), Line(0, 0, 0, 20) >>

\* _extract_arc_info: lengths of arcs are kept in units of pi/180, the factor
\* math.radians puts on both angles
_extract_arc_info(entity) ==
    [radius |-> entity.r,
     arc_length |-> RMul(entity.r, R(IF entity.ea < entity.sa
                                     THEN entity.ea + 360 - entity.sa
                                     ELSE entity.ea - entity.sa)),
     center |-> <<entity.pts[1][1], entity.pts[1][2]>>,
     start_angle |-> entity.sa,
     end_angle |-> entity.ea]

\* the ArcInfo of the ARC entities among the first n entities, in file order
RECURSIVE CollectArcs(_, _)
CollectArcs(msp, n) ==
    IF n = 0 THEN <<>>
    ELSE IF msp[n].kind = "ARC"
    THEN Append(CollectArcs(msp, n - 1), _extract_arc_info(msp[n]))
    ELSE CollectArcs(msp, n - 1)

\* arcs.sort(key=lambda a: a.radius, reverse=True): stable, equal radii keep
\* their order
InsertByRadius(sorted, a) ==
    With(Cardinality({i \in 1..Len(sorted) : RLe(a.radius, sorted[i].radius)}), LAMBDA k :
        SubSeq(sorted, 1, k) \o <<a>> \o SubSeq(sorted, k + 1, Len(sorted)))

RECURSIVE SortPrefixByRadius(_, _)
SortPrefixByRadius(arcs, n) ==
    IF n = 0 THEN <<>>
    ELSE With(SortPrefixByRadius(arcs, n - 1), LAMBDA sorted : InsertByRadius(sorted, arcs[n]))

\* a variant that leaves the arcs in file order
SortByRadiusNone(arcs) == arcs

SortByRadius(arcs) == SortPrefixByRadius(arcs, Len(arcs))

BaseInfo(file_path, korpus_number, arc1, arc2) ==
    [file_path |-> file_path, korpus_number |-> korpus_number, arc1 |-> arc1, arc2 |-> arc2]

\* _analyze_base_file: the BaseInfo, or the error raised
_analyze_base_file(file_path) ==
    With(_extract_korpus_number(file_path), LAMBDA korpus :
        IF korpus = None
        THEN [result |-> "UnparsableFilename", info |-> None]
        ELSE IF ~BaseReadable(file_path)
        THEN [result |-> "ReadError", info |-> None]
        ELSE With(CollectArcs(BaseDrawing(file_path), Len(BaseDrawing(file_path))), LAMBDA arcs :
                IF Len(arcs) < 2
                THEN [result |-> "InsufficientArcs", info |-> None]
                ELSE With(SortByRadius(arcs), LAMBDA sorted :
                        [result |-> "ok",
                         info |-> Some(BaseInfo(file_path, korpus[1], sorted[1], sorted[2]))])))

\* folder_path.glob("Osnovanie*.dxf") and glob("Osnovanie*.DXF")
GlobBase(folder, suffix) ==
    SelectSeq(folder, LAMBDA f : f[1] = "Osnovanie" /\ f[Len(f) - 1] = "." /\ f[Len(f)] = suffix)

\* a variant that keeps the record a korpus number already has
BasesPutIfAbsent(registry, info) ==
    [k \in (DOMAIN registry) \cup {info.korpus_number} |->
        IF k \in DOMAIN registry THEN registry[k] ELSE info]

BasesPut(registry, info) ==
    [k \in (DOMAIN registry) \cup {info.korpus_number} |->
        IF k = info.korpus_number THEN info ELSE registry[k]]

\* the loop of analyze_folder over the first n base files
RECURSIVE AnalyzeLoop(_, _)
AnalyzeLoop(base_files, n) ==
    IF n = 0 THEN NoBases
    ELSE With(<<AnalyzeLoop(base_files, n - 1), _analyze_base_file(base_files[n])>>, LAMBDA p :
            IF p[2].result = "ok" THEN BasesPut(p[1], p[2].info[1]) ELSE p[1])

outer_radius_length(base_info) == base_info.arc1.arc_length
inner_radius_length(base_info) == base_info.arc2.arc_length

OuterMarks == {"Vneshnij", "vneshnij"}
IsOuter(filename) == \E i \in 1..Len(filename) : filename[i] \in OuterMarks

\* a variant with the two sides swapped
TargetLengthSwapped(is_outer, base_info) ==
    IF is_outer THEN inner_radius_length(base_info) ELSE outer_radius_length(base_info)

TargetLength(is_outer, base_info) ==
    IF is_outer THEN outer_radius_length(base_info) ELSE inner_radius_length(base_info)

RadiusFileInfo(radius_file, korpus_number, is_outer, current_length, base_info) ==
    [file_path |-> radius_file, korpus_number |-> korpus_number, is_outer |-> is_outer,
     current_length |-> current_length, target_length |-> TargetLength(is_outer, base_info),
     base_info |-> base_info]

\* folders hold up to MaxFolder files, in the order glob lists them
MaxFolder == 2
Folders == {f \in UNION {[1..n -> FolderFiles] : n \in 0..MaxFolder} :
                \A i \in 1..Len(f) : \A j \in 1..Len(f) : i # j => f[i] # f[j]}
CurrentLengths == {100, 150, 200}

\* BaseAnalyzer.analyze_folder(folder_path)
AnalyzeFolder(folder) ==
    /\ UNCHANGED <<processor_vars, work_folder>>
    /\ \E base_files \in {GlobBase(folder, "dxf") \o GlobBase(folder, "DXF")} :
        IF base_files = <<>>
        THEN /\ bases' = NoBases
             /\ matched' = Matched("analyze_folder", folder, "NoReferencesFound", None)
        ELSE \E found \in {AnalyzeLoop(base_files, Len(base_files))} :
             /\ bases' = found
             /\ matched' = IF DOMAIN found = {}
                           THEN Matched("analyze_folder", folder, "NoReferencesFound", None)
                           ELSE Matched("analyze_folder", folder, "ok", Some(found))

\* a variant that looks the registry up by the digits, without the prefix
UnknownAssemblyByDigits(korpus_number, registry) == Tail(korpus_number) \notin DOMAIN registry

\* korpus_number not in self.bases
UnknownAssembly(korpus_number, registry) == korpus_number \notin DOMAIN registry

\* BaseAnalyzer.match_radius_to_base(radius_file, current_length)
MatchRadiusToBase(radius_file, current_length) ==
    /\ UNCHANGED <<processor_vars, work_folder>>
    /\ UNCHANGED bases
    /\ \E korpus \in {_extract_korpus_number(radius_file)} :
        matched' =
            IF korpus = None
            THEN Matched("match_radius_to_base", <<radius_file, R(current_length)>>,
                         "UnparsableFilename", None)
            ELSE IF UnknownAssembly(korpus[1], bases)
            THEN KeyErrorOutcome(<<radius_file, R(current_length)>>, bases)
            ELSE Matched("match_radius_to_base", <<radius_file, R(current_length)>>, "ok",
                         Some(RadiusFileInfo(radius_file, korpus[1], IsOuter(radius_file),
                                             R(current_length), bases[korpus[1]])))

NextAnalyzer ==
    \/ \E folder \in Folders : AnalyzeFolder(folder) /\ UNCHANGED service
    \/ \E radius_file \in RadiusFiles, current_length \in CurrentLengths :
          MatchRadiusToBase(radius_file, current_length) /\ UNCHANGED service

SpecAnalyzer == Init /\ [][NextAnalyzer]_vars

(***************************************************************************)
(* BaseAnalyzer: width check of the work drawings of a folder              *)
(***************************************************************************)
\* a sheet of one slanted line, len long and w wide
SheetOf(len, w) ==
    << [kind |-> "LINE", pts |-> <<P(0, 0), <<len, w, 0>>>>, r |-> R(0), sa |-> 0, ea |-> 0,
        bulge |-> <<>>] >>

\* a sheet 150 long
Sheet(w) == SheetOf(R(150), w)

\* math.radians: the factor pi/180 on a length kept in units of pi/180, with
\* 355/113 for pi
Millimetres(arc_units) == RMul(arc_units, <<71, 4068>>)

\* the work files a folder can hold, in the order of their names
OuterKorp1 == WorkName1
OuterKorp2 == <<"Vneshnij", " ", "radius", " ", "korp", "2", ".", "dxf">>
OuterKorp2Done == <<"Vneshnij", " ", "radius", " ", "korp", "2", "_stretch", ".", "dxf">>
OuterKorp3 == <<"Vneshnij", " ", "radius", " ", "korp", "3", ".", "dxf">>
OuterKorp7 == <<"Vneshnij", " ", "radius", " ", "korp", "7", ".", "dxf">>
InnerKorp1 == WorkName2
InnerG4 == WorkName4
InnerKorp2 == <<"Vnutrennij", " ", "radius", " ", "korp", "2", ".", "dxf">>
InnerKorp3 == <<"Vnutrennij", " ", "radius", " ", "korp", "3", ".", "dxf">>
InnerKorp5 == <<"Vnutrennij", " ", "radius", " ", "korp", "5", ".", "dxf">>
InnerKorp7 == <<"Vnutrennij", " ", "radius", " ", "korp", "7", ".", "dxf">>
InnerNoKorp == WorkName5

RadiusNamesSorted ==
    << OuterKorp1, OuterKorp2, OuterKorp2Done, OuterKorp3, OuterKorp7,
       InnerKorp1, InnerG4, InnerKorp2, InnerKorp3, InnerKorp5, InnerKorp7, InnerNoKorp >>

\* ezdxf.readfile raises for InnerKorp5
RadiusReadable(file_path) == file_path # InnerKorp5

\* the modelspace of a work file
RadiusDrawing(file_path) ==
    CASE file_path = OuterKorp1 -> Sheet(<<1201, 10>>)
      [] file_path = InnerKorp1 -> Sheet(R(120))
      [] file_path = OuterKorp2 -> SheetOf(Millimetres(R(3600)), <<12011, 100>>)
      [] file_path = InnerKorp2 -> Sheet(R(120)) \o << Circle(75, 60, 10) >>
      [] file_path = OuterKorp3 -> Sheet(R(8))
      [] file_path = InnerKorp3 -> << Circle(2, 2, 2) >>
      [] file_path = OuterKorp7 -> << Line(0, 0, 6, 0) >>
      [] file_path = InnerKorp7 -> Sheet(R(5))
      [] file_path = InnerG4 -> Sheet(R(50))
      [] OTHER -> Sheet(R(100))

\* f.stem: the name without its suffix
Stem(file_path) == SubSeq(file_path, 1, Len(file_path) - 2)

\* a variant that keeps the processed files
GlobRadiusAll(files, side) ==
    SelectSeq(files, LAMBDA f :
        /\ Len(f) >= 5
        /\ f[1] = side /\ f[2] = " " /\ f[3] = "radius"
        /\ f[Len(f) - 1] = "." /\ f[Len(f)] = "dxf")

\* folder_path.glob(side + " radius*.dxf") without the processed files
GlobRadius(files, side) ==
    SelectSeq(files, LAMBDA f :
        /\ Len(f) >= 5
        /\ f[1] = side /\ f[2] = " " /\ f[3] = "radius"
        /\ f[Len(f) - 1] = "." /\ f[Len(f)] = "dxf"
        /\ Stem(f)[Len(Stem(f))] \notin {"_stretch", "_shrink"})

\* find_radius_files: the radius files of the folder, sorted by name
find_radius_files(files) ==
    With(SelectSeq(RadiusNamesSorted, LAMBDA f : f \in files), LAMBDA present :
        SelectSeq(RadiusNamesSorted, LAMBDA f :
            \E i \in 1..Len(GlobRadius(present, "Vneshnij") \o GlobRadius(present, "Vnutrennij")) :
                (GlobRadius(present, "Vneshnij") \o GlobRadius(present, "Vnutrennij"))[i] = f))

\* korpus_files: korpus number -> side -> the last file of that side
RECURSIVE GroupFiles(_, _)
GroupFiles(radius_files, n) ==
    IF n = 0 THEN [k \in {} |-> <<>>]
    ELSE With(<<GroupFiles(radius_files, n - 1), _extract_korpus_number(radius_files[n])>>,
              LAMBDA p :
        IF p[2] = None THEN p[1]
        ELSE [k \in (DOMAIN p[1]) \cup {p[2][1]} |->
                 IF k # p[2][1] THEN p[1][k]
                 ELSE [side \in {"outer", "inner"} |->
                          IF side = (IF IsOuter(radius_files[n]) THEN "outer" ELSE "inner")
                          THEN Some(radius_files[n])
                          ELSE IF k \in DOMAIN p[1] THEN p[1][k][side] ELSE None]])

\* sorted(korpus_files.keys()): strings compare digit by digit
DigitValue(d) == CHOOSE v \in 0..9 : <<"0", "1", "2", "3", "4", "5", "6", "7", "8", "9">>[v + 1] = d

RECURSIVE KeyBefore(_, _, _)
KeyBefore(a, b, i) ==
    IF i > Len(a) THEN i <= Len(b)
    ELSE IF i > Len(b) THEN FALSE
    ELSE IF a[i] = b[i] THEN KeyBefore(a, b, i + 1)
    ELSE DigitValue(a[i]) < DigitValue(b[i])

RECURSIVE SortedKeys(_)
SortedKeys(keys) ==
    IF keys = {} THEN <<>>
    ELSE With(CHOOSE k \in keys : \A other \in keys \ {k} : KeyBefore(k, other, 2),
              LAMBDA first : <<first>> \o SortedKeys(keys \ {first}))

\* info.width_y of dxf_proc.load(file), or None when load raises
LoadedWidth(file_path) ==
    IF RadiusReadable(file_path)
    THEN Some(SizeOf(Extents(RadiusDrawing(file_path)), "Y"))
    ELSE None

WidthCheckResult(korpus_number, outer_file, inner_file, outer_width, inner_width, width_difference, needs_adjustment) ==
    [korpus_number |-> korpus_number, outer_file |-> outer_file, inner_file |-> inner_file,
     outer_width |-> outer_width, inner_width |-> inner_width,
     width_difference |-> width_difference, needs_adjustment |-> needs_adjustment]

has_both_files(check) == check.outer_file # None /\ check.inner_file # None

\* a variant that also flags a difference equal to the tolerance
ExceedsOrMeets(width_diff, tolerance) == RLe(tolerance, RAbs(width_diff))

\* abs(width_diff) > tolerance
Exceeds(width_diff, tolerance) == RLt(tolerance, RAbs(width_diff))

\* the body of the loop of check_widths for one korpus: zero or one results
CheckKorpus(korpus_number, files, tolerance) ==
    With(<<IF files["outer"] = None THEN None ELSE LoadedWidth(files["outer"][1]),
           IF files["inner"] = None THEN None ELSE LoadedWidth(files["inner"][1])>>, LAMBDA w :
        IF \/ (files["outer"] # None /\ w[1] = None)
           \/ (files["inner"] # None /\ w[2] = None)
        THEN <<>>
        ELSE IF w[1] # None /\ w[2] # None
        THEN <<WidthCheckResult(korpus_number, files["outer"], files["inner"], w[1], w[2],
                                RSub(w[1][1], w[2][1]),
                                Exceeds(RSub(w[1][1], w[2][1]), tolerance))>>
        ELSE <<WidthCheckResult(korpus_number, files["outer"], files["inner"], w[1], w[2],
                                R(0), FALSE)>>)

RECURSIVE CheckLoop(_, _, _, _)
CheckLoop(keys, n, korpus_files, tolerance) ==
    IF n = 0 THEN <<>>
    ELSE CheckLoop(keys, n - 1, korpus_files, tolerance)
            \o CheckKorpus(keys[n], korpus_files[keys[n]], tolerance)

check_widths(files, tolerance) ==
    With(find_radius_files(files), LAMBDA radius_files :
        With(GroupFiles(radius_files, Len(radius_files)), LAMBDA korpus_files :
            With(SortedKeys(DOMAIN korpus_files), LAMBDA keys :
                CheckLoop(keys, Len(keys), korpus_files, tolerance))))

\* the folders the width operations start from hold up to MaxRadiusFiles files
MaxRadiusFiles == 4
RadiusFolders ==
    {fs \in SUBSET {RadiusNamesSorted[i] : i \in 1..Len(RadiusNamesSorted)} :
        Cardinality(fs) <= MaxRadiusFiles}
Tolerances == {<<1, 10>>, <<11, 100>>}

InitWidths ==
    /\ last_doc = None
    /\ last_path = None
    /\ extents = None
    /\ zone_cache = NoCache
    /\ call = Call("init", "", <<>>, <<>>, "ok", None, None)
    /\ steps = <<>>
    /\ nops = 0
    /\ bases = NoBases
    /\ matched = Matched("init", <<>>, "ok", None)
    /\ work_folder \in RadiusFolders
    /\ service = NoSession

\* BaseAnalyzer.check_widths(folder_path, tolerance)
CheckWidths(tolerance) ==
    /\ UNCHANGED <<processor_vars, bases, work_folder>>
    /\ matched' = Matched("check_widths", <<tolerance>>, "ok", Some(check_widths(work_folder, tolerance)))

\* last_path.with_name(f"{last_path.stem}_stretch.dxf") of a work file
\* a variant that saves over the drawing it was made from
StretchInPlace(file_path) == file_path

StretchName(file_path) == Stem(file_path) \o <<"_stretch", ".", "dxf">>

\* stretch() on a processor that has just loaded file_path: the outcome, the
\* file it saved, and the document and zone cache it leaves
StretchLoaded(file_path, doc, ext, target_length, axis, anchor) ==
    IF DegenerateAxis(SizeOf(ext, axis), target_length)
    THEN [result |-> "DegenerateAxis", ret |-> None, wrote |-> None, doc |-> doc, cache |-> NoCache]
    ELSE IF SizeOf(ext, axis) = target_length
    THEN [result |-> "same", ret |-> file_path, wrote |-> None, doc |-> doc, cache |-> NoCache]
    ELSE With(AxisPass(doc, ext, NoCache, axis, target_length, anchor), LAMBDA pass :
            IF pass.raised
            THEN [result |-> "NoElasticRegion", ret |-> None, wrote |-> None,
                  doc |-> doc, cache |-> pass.cache]
            ELSE [result |-> "ok", ret |-> StretchName(file_path),
                  wrote |-> StretchName(file_path), doc |-> pass.doc, cache |-> pass.cache])

\* the calls align_widths makes on its processor for one check, and the
\* files it lists for the korpus
AlignCalls(file_to_process, target_width, anchor) ==
    IF ~RadiusReadable(file_to_process)
    THEN [calls |-> <<[op |-> "load", file |-> file_to_process, result |-> "LoadError"]>>,
          files |-> <<>>]
    ELSE With(StretchLoaded(file_to_process, RadiusDrawing(file_to_process),
                            Extents(RadiusDrawing(file_to_process)), target_width, "Y", anchor),
              LAMBDA out :
            [calls |-> <<[op |-> "load", file |-> file_to_process, result |-> "ok"],
                         [op |-> "stretch", file |-> file_to_process, axis |-> "Y",
                          target |-> target_width, anchor |-> anchor,
                          result |-> out.result, wrote |-> out.wrote]>>,
             files |-> IF out.result \in {"ok", "same"} THEN <<out.ret>> ELSE <<>>])

\* the body of the loop of align_widths for one check
AlignCheck(check, use_outer_width, anchor) ==
    IF ~has_both_files(check) \/ ~check.needs_adjustment
    THEN [calls |-> <<>>, files |-> <<>>]
    ELSE With(IF use_outer_width
              THEN <<check.outer_width, check.inner_file, check.inner_width>>
              ELSE <<check.inner_width, check.outer_file, check.outer_width>>, LAMBDA t :
            \* if file_to_process and target_width and current_width
            IF t[2] # None /\ t[1] # None /\ t[1][1] # R(0) /\ t[3] # None /\ t[3][1] # R(0)
            THEN AlignCalls(t[2][1], t[1][1], anchor)
            ELSE [calls |-> <<>>, files |-> <<>>])

\* the loop of align_widths over the first n checks: the calls made on the
\* processor and results, korpus number -> files
RECURSIVE AlignLoop(_, _, _, _)
AlignLoop(width_checks, n, use_outer_width, anchor) ==
    IF n = 0 THEN [calls |-> <<>>, results |-> [k \in {} |-> <<>>]]
    ELSE With(<<AlignLoop(width_checks, n - 1, use_outer_width, anchor),
                AlignCheck(width_checks[n], use_outer_width, anchor)>>, LAMBDA p :
            [calls |-> p[1].calls \o p[2].calls,
             results |-> IF p[2].files = <<>> THEN p[1].results
                         ELSE [k \in (DOMAIN p[1].results) \cup {width_checks[n].korpus_number} |->
                                  IF k = width_checks[n].korpus_number THEN p[2].files
                                  ELSE p[1].results[k]]])

align_widths(files, use_outer_width, anchor) ==
    With(check_widths(files, <<1, 10>>), LAMBDA width_checks :
        AlignLoop(width_checks, Len(width_checks), use_outer_width, anchor))

\* BaseAnalyzer.align_widths(folder_path, use_outer_width, anchor)
AlignWidths(use_outer_width, anchor) ==
    /\ UNCHANGED <<processor_vars, bases>>
    /\ \E done \in {align_widths(work_folder, use_outer_width, anchor)} :
        /\ matched' = Matched("align_widths", <<use_outer_width, anchor>>, "ok", Some(done))
        /\ work_folder' = work_folder \cup
              {done.calls[i].wrote : i \in {j \in 1..Len(done.calls) :
                  done.calls[j].op = "stretch" /\ done.calls[j].wrote # None}}

NextWidths ==
    \/ \E tolerance \in Tolerances : CheckWidths(tolerance) /\ UNCHANGED service
    \/ \E use_outer_width \in BOOLEAN, anchor \in {"start", "center"} :
          AlignWidths(use_outer_width, anchor) /\ UNCHANGED service

SpecWidths == InitWidths /\ [][NextWidths]_vars

(***************************************************************************)
(* The batch drivers of the application                                    *)
(***************************************************************************)
\* the processor of the FlatPatternService the batch drivers measure with
ServiceProc(doc, path, ext, cache, session) ==
    [doc |-> doc, path |-> path, ext |-> ext, cache |-> cache, session |-> session]

\* FlatPatternService.measure: DxfProcessor.load sets last_path, then reads
\* the file; the fields of the service are set once load has returned
Measure(proc, file_path, axis) ==
    IF RadiusReadable(file_path)
    THEN [raised |-> FALSE,
          proc |-> ServiceProc(Some(RadiusDrawing(file_path)), file_path,
                               Some(Extents(RadiusDrawing(file_path))), NoCache,
                               Session(Some(DxfInfo(file_path, Extents(RadiusDrawing(file_path)))),
                                       Some(file_path), None, axis))]
    ELSE [raised |-> TRUE, proc |-> [proc EXCEPT !.path = file_path]]

\* the counter a file goes to and why
Outcome(file_path, tally, reason, proc, wrote) ==
    [file |-> file_path, tally |-> tally, reason |-> reason, proc |-> proc, wrote |-> wrote]

\* a variant that counts a work file without a reference as an error
ResolutionTallyAllErrors(reason) == "error"

\* the counter of a file whose match_radius_to_base raised: except KeyError
\* counts a skip, any other exception reaches except Exception
ResolutionTally(reason) == IF reason = "UnknownAssembly" THEN "skip" ELSE "error"

\* the reference of a measured work file: the target length, or the error
\* match_radius_to_base raises
Resolve(file_path, registry) ==
    With(_extract_korpus_number(file_path), LAMBDA korpus :
        IF korpus = None THEN [result |-> "UnparsableFilename", korpus_number |-> None,
                               target_length |-> None]
        ELSE IF UnknownAssembly(korpus[1], registry)
        THEN [result |-> "UnknownAssembly", korpus_number |-> korpus, target_length |-> None]
        ELSE [result |-> "ok", korpus_number |-> korpus,
              target_length |->
                  Some(Millimetres(TargetLength(IsOuter(file_path), registry[korpus[1]])))])

\* the body of the loop of _batch_process for one file
BatchFile(proc, file_path, registry, axis, anchor) ==
    With(Measure(proc, file_path, axis), LAMBDA m :
        IF m.raised THEN Outcome(file_path, "error", "LoadError", m.proc, None)
        ELSE With(<<SizeOf(m.proc.ext[1], axis), Resolve(file_path, registry)>>, LAMBDA t :
            IF t[2].result # "ok"
            THEN Outcome(file_path, ResolutionTally(t[2].result), t[2].result, m.proc, None)
            ELSE IF LtTol(RAbs(RSub(t[2].target_length[1], t[1])), 100)
            THEN Outcome(file_path, "skip", "same", m.proc, None)
            ELSE With(StretchLoaded(file_path, m.proc.doc[1], m.proc.ext[1],
                                    t[2].target_length[1], axis, anchor), LAMBDA out :
                    Outcome(file_path, IF out.result = "ok" THEN "success" ELSE "error",
                            out.result,
                            ServiceProc(Some(out.doc), file_path, m.proc.ext, out.cache,
                                IF out.ret = None THEN m.proc.session
                                ELSE [m.proc.session EXCEPT !.stretched_path = Some(out.ret)]),
                            out.wrote))))

\* stretch_both_axes on a new processor that has just loaded file_path
BothAxesLoaded(file_path, doc, ext, tx, ty, ax, ay) ==
    IF /\ ~GtTol(RAbs(RSub(SizeOf(ext, "X"), tx)), InvEps6)
       /\ ~GtTol(RAbs(RSub(SizeOf(ext, "Y"), ty)), InvEps6)
    THEN [result |-> "ok", wrote |-> None]
    ELSE With(StageX(doc, ext, NoCache, tx, ax), LAMBDA sx :
            IF sx.raised THEN [result |-> "NoElasticRegion", wrote |-> None]
            ELSE With(StageY(sx, ext, ty, ay), LAMBDA sy :
                    IF sy.raised THEN [result |-> "NoElasticRegion", wrote |-> None]
                    ELSE [result |-> "ok", wrote |-> StretchName(file_path)]))

\* korpus_widths: the reference width of each korpus that has both files
KorpusWidths(width_checks, use_outer_width) ==
    [k \in {width_checks[i].korpus_number :
                i \in {j \in 1..Len(width_checks) : has_both_files(width_checks[j])}} |->
        With(CHOOSE i \in 1..Len(width_checks) : width_checks[i].korpus_number = k, LAMBDA i :
            IF use_outer_width THEN width_checks[i].outer_width[1]
            ELSE width_checks[i].inner_width[1])]

\* the body of the loop of _batch_process_both_axes for one file
BatchFileBothAxes(proc, file_path, registry, korpus_widths, axis, anchor) ==
    With(Measure(proc, file_path, axis), LAMBDA m :
        IF m.raised THEN Outcome(file_path, "error", "LoadError", m.proc, None)
        ELSE With(<<SizeOf(m.proc.ext[1], axis), SizeOf(m.proc.ext[1], "Y"),
                    Resolve(file_path, registry)>>, LAMBDA t :
            IF t[3].result # "ok"
            THEN Outcome(file_path, ResolutionTally(t[3].result), t[3].result, m.proc, None)
            ELSE With(IF t[3].korpus_number[1] \in DOMAIN korpus_widths
                      THEN korpus_widths[t[3].korpus_number[1]] ELSE t[2], LAMBDA target_width :
                IF /\ LtTol(RAbs(RSub(t[3].target_length[1], t[1])), 100)
                   /\ LtTol(RAbs(RSub(target_width, t[2])), 100)
                THEN Outcome(file_path, "skip", "same", m.proc, None)
                ELSE With(BothAxesLoaded(file_path, m.proc.doc[1], m.proc.ext[1],
                                         t[3].target_length[1], target_width, anchor, anchor),
                          LAMBDA out :
                        Outcome(file_path, IF out.result = "ok" THEN "success" ELSE "error",
                                out.result, m.proc, out.wrote)))))

\* a variant whose counters stop at the first failed file
CountedBeforeFailure(log, tally) ==
    Cardinality({i \in 1..Len(log) :
        log[i].tally = tally /\ \A j \in 1..i : log[j].tally # "error"})

\* success_count, skip_count, error_count: the files of the log in a tally
Counted(log, tally) == Cardinality({i \in 1..Len(log) : log[i].tally = tally})

\* the loop body of the driver the job belongs to
BatchStep(proc, file_path, job) ==
    IF job.both_axes
    THEN BatchFileBothAxes(proc, file_path, job.registry, job.korpus_widths, job.axis, job.anchor)
    ELSE BatchFile(proc, file_path, job.registry, job.axis, job.anchor)

\* the loop of a batch driver over the first n work files: the log of the
\* files it attempted and the processor it leaves
RECURSIVE BatchLoop(_, _, _, _)
BatchLoop(radius_files, n, proc, job) ==
    IF n = 0 THEN [log |-> <<>>, proc |-> proc]
    ELSE With(BatchLoop(radius_files, n - 1, proc, job), LAMBDA done :
            With(BatchStep(done.proc, radius_files[n], job), LAMBDA out :
                [log |-> Append(done.log, [file |-> out.file, tally |-> out.tally,
                                            reason |-> out.reason, wrote |-> out.wrote]),
                 proc |-> out.proc]))

BatchReport(radius_files, done) ==
    [files |-> radius_files, log |-> done.log,
     success_count |-> Counted(done.log, "success"),
     skip_count |-> Counted(done.log, "skip"),
     error_count |-> Counted(done.log, "error")]

Written(log) == {log[i].wrote : i \in {j \in 1..Len(log) : log[j].wrote # None}}

\* the work folders and the registries a batch starts from
MaxBatchFiles == 3
BatchNames ==
    {OuterKorp1, OuterKorp2, OuterKorp2Done, OuterKorp7, InnerKorp1, InnerKorp2, InnerKorp7,
     InnerKorp5, InnerNoKorp}
BatchFolders == {fs \in SUBSET BatchNames : Cardinality(fs) <= MaxBatchFiles}
BatchRegistries ==
    {AnalyzeLoop(f, Len(f)) : f \in {<<BaseName1>>, <<BaseName1, BaseName2>>, <<BaseName2, BaseName4>>}}

InitBatch ==
    /\ last_doc = None
    /\ last_path = None
    /\ extents = None
    /\ zone_cache = NoCache
    /\ call = Call("init", "", <<>>, <<>>, "ok", None, None)
    /\ steps = <<>>
    /\ nops = 0
    /\ bases \in BatchRegistries
    /\ matched = Matched("init", <<>>, "ok", None)
    /\ work_folder \in BatchFolders
    /\ service = NoSession

\* App._batch_process with the axis and the anchor chosen in the window
BatchProcess(axis, anchor) ==
    /\ bases # NoBases
    /\ find_radius_files(work_folder) # <<>>
    /\ UNCHANGED <<bases, call, steps, nops>>
    /\ \E radius_files \in {find_radius_files(work_folder)} :
       \E done \in {BatchLoop(radius_files, Len(radius_files),
                              ServiceProc(last_doc, last_path, extents, zone_cache, service),
                              [both_axes |-> FALSE, registry |-> bases, axis |-> axis,
                               anchor |-> anchor])} :
        /\ matched' = Matched("_batch_process", <<axis, anchor>>, "ok",
                              Some(BatchReport(radius_files, done)))
        /\ work_folder' = work_folder \cup Written(done.log)
        /\ last_doc' = done.proc.doc
        /\ last_path' = done.proc.path
        /\ extents' = done.proc.ext
        /\ zone_cache' = done.proc.cache
        /\ service' = done.proc.session

\* App._batch_process_both_axes with the reference side chosen in the dialog
BatchProcessBothAxes(use_outer_width, axis, anchor) ==
    /\ bases # NoBases
    /\ UNCHANGED <<bases, call, steps, nops>>
    /\ \E width_checks \in {check_widths(work_folder, <<1, 10>>)} :
        /\ \E i \in 1..Len(width_checks) : width_checks[i].needs_adjustment
        /\ \E radius_files \in {find_radius_files(work_folder)} :
           \E done \in {BatchLoop(radius_files, Len(radius_files),
                                  ServiceProc(last_doc, last_path, extents, zone_cache, service),
                                  [both_axes |-> TRUE, registry |-> bases,
                                   korpus_widths |-> KorpusWidths(width_checks, use_outer_width),
                                   axis |-> axis, anchor |-> anchor])} :
            /\ matched' = Matched("_batch_process_both_axes", <<use_outer_width, axis, anchor>>,
                                  "ok", Some(BatchReport(radius_files, done)))
            /\ work_folder' = work_folder \cup Written(done.log)
            /\ last_doc' = done.proc.doc
            /\ last_path' = done.proc.path
            /\ extents' = done.proc.ext
            /\ zone_cache' = done.proc.cache
            /\ service' = done.proc.session

NextBatch ==
    \/ \E axis \in Axes, anchor \in {"start", "center"} : BatchProcess(axis, anchor)
    \/ \E use_outer_width \in BOOLEAN, axis \in Axes, anchor \in {"start", "center"} :
          BatchProcessBothAxes(use_outer_width, axis, anchor)

SpecBatch == InitBatch /\ [][NextBatch]_vars

(***************************************************************************)
(* Properties of the stretching engine                                     *)
(***************************************************************************)
Loaded == last_doc # None /\ extents # None

\* the document a pass of the last call left: the next pass's input, or the
\* document in memory after the call
StepAfter(k) == IF k < Len(steps) THEN steps[k + 1].before ELSE last_doc[1]

\* |p - q| <= 1e-6
Near(p, q) == ~GtTol(RAbs(RSub(p, q)), InvEps6)

\* the last call was a successful stretch(), the first one since load()
FirstStretchOk == call.op = "stretch" /\ call.result = "ok" /\ nops = 1

\* C1: after a successful stretch() of a freshly loaded drawing whose zones
\* have stretch length > 0, to a positive target, the bounding extent of the
\* drawing on the axis is the target (within 1e-6).
C1_ExtentIsTarget ==
    (FirstStretchOk /\ RLt(R(0), call.targets[1]) /\ RLt(R(0), StretchTotal(steps[1].zones)))
        => Near(SizeOf(Extents(last_doc[1]), call.axis), call.targets[1])

\* the document a single stretch() of the drawing read from path produces
DirectStretch(path, target_length, axis, anchor) ==
    AxisPass(Drawing(path), FileExtents[path], NoCache, axis, target_length, anchor).doc

\* C2: no drift: after every successful stretch() to a target L the
\* coordinates on the stretched axis are those of a single stretch of the
\* drawing as loaded to L, however many stretches the load has seen.
C2_NoDrift ==
    (call.op = "stretch" /\ call.result = "ok") =>
        With(DirectStretch(last_path, call.targets[1], call.axis, call.anchors[1]), LAMBDA direct :
            \A i \in 1..Len(direct) : \A j \in 1..Len(direct[i].pts) :
                Near(Coord(last_doc[1][i].pts[j], call.axis), Coord(direct[i].pts[j], call.axis)))

OtherAxis(axis) == IF axis = "X" THEN "Y" ELSE "X"

\* C3: in every mapping built, a fixed segment's new length equals its old
\* length; and a pass changes, of a CIRCLE or ARC, only the centre's
\* coordinate on the active axis: radius, angles, the other axis and Z stay.
C3_FixedPreserved ==
    \A k \in 1..Len(steps) :
        /\ \A i \in 1..Len(steps[k].mapping) :
              steps[k].mapping[i].zone_type = "fixed" =>
                  RSub(steps[k].mapping[i].end_new, steps[k].mapping[i].start_new)
                      = RSub(steps[k].mapping[i].end_old, steps[k].mapping[i].start_old)
        /\ \A i \in 1..Len(steps[k].before) :
              steps[k].before[i].kind \in {"CIRCLE", "ARC"} =>
                  /\ StepAfter(k)[i].kind = steps[k].before[i].kind
                  /\ StepAfter(k)[i].r = steps[k].before[i].r
                  /\ StepAfter(k)[i].sa = steps[k].before[i].sa
                  /\ StepAfter(k)[i].ea = steps[k].before[i].ea
                  /\ Coord(StepAfter(k)[i].pts[1], OtherAxis(steps[k].axis))
                        = Coord(steps[k].before[i].pts[1], OtherAxis(steps[k].axis))
                  /\ StepAfter(k)[i].pts[1][3] = steps[k].before[i].pts[1][3]

\* a pass moved a fixed zone and the centre of a circle or arc with it
C3_Witness ==
    \E k \in 1..Len(steps) :
        /\ \E i \in 1..Len(steps[k].mapping) :
              /\ steps[k].mapping[i].zone_type = "fixed"
              /\ steps[k].mapping[i].start_new # steps[k].mapping[i].start_old
        /\ \E i \in 1..Len(steps[k].before) :
              /\ steps[k].before[i].kind \in {"CIRCLE", "ARC"}
              /\ StepAfter(k)[i].pts[1] # steps[k].before[i].pts[1]

\* the anchor coordinate of a pass, from the bounds the pass read
StepAnchor(st) ==
    CASE st.anchor = "start" -> st.bounds[1]
      [] st.anchor = "end" -> st.bounds[2]
      [] st.anchor = "center" -> RDiv(RAdd(st.bounds[1], st.bounds[2]), R(2))

MappedKinds == {"LINE", "LWPOLYLINE", "POLYLINE", "SPLINE", "CIRCLE", "ARC", "POINT"}

\* C4: anchor invariant: after the mapping and the anchor translation of a
\* pass, every point mapped through _map_value that lay at the anchor
\* coordinate a (axis_min, the midpoint or axis_max) lies within 1e-6 of a.
C4_AnchorFixed ==
    \A k \in 1..Len(steps) :
        ~steps[k].raised =>
            \A i \in 1..Len(steps[k].before) :
                steps[k].before[i].kind \in MappedKinds =>
                    \A j \in 1..Len(steps[k].before[i].pts) :
                        Coord(steps[k].before[i].pts[j], steps[k].axis) = StepAnchor(steps[k])
                            => LtTol(RAbs(RSub(Coord(StepAfter(k)[i].pts[j], steps[k].axis),
                                               StepAnchor(steps[k]))), InvEps6)

\* a pass with a non-zero anchor translation and a point at the anchor
C4_Witness ==
    \E k \in 1..Len(steps) :
        /\ ~steps[k].raised
        /\ steps[k].anchor \in {"center", "end"}
        /\ _map_value(StepAnchor(steps[k]), steps[k].mapping) # StepAnchor(steps[k])
        /\ \E i \in 1..Len(steps[k].before) : \E j \in 1..Len(steps[k].before[i].pts) :
              /\ steps[k].before[i].kind \in MappedKinds
              /\ Coord(steps[k].before[i].pts[j], steps[k].axis) = StepAnchor(steps[k])

\* C5: idempotence: a stretch() of a loaded drawing to the extent the
\* drawing has on the axis, and a stretch_both_axes() to the extents it has
\* on both, changes no coordinate, returns the source path and writes no
\* file.
C5_Idempotent ==
    [][ /\ (Loaded /\ call'.op = "stretch"
               /\ call'.targets[1] = SizeOf(Extents(last_doc[1]), call'.axis))
            => (last_doc' = last_doc /\ call'.ret = last_path /\ call'.wrote = None)
        /\ (Loaded /\ call'.op = "stretch_both_axes"
               /\ call'.targets[1] = SizeOf(Extents(last_doc[1]), "X")
               /\ call'.targets[2] = SizeOf(Extents(last_doc[1]), "Y"))
            => (last_doc' = last_doc /\ call'.ret = last_path /\ call'.wrote = None)
      ]_vars

\* C6: a stretch() of a loaded drawing whose zones on the axis have stretch
\* length <= 0, to a target that differs from the current extent by more
\* than 1e-9, fails with an error, changes no coordinate and saves no file.
C6_NoElasticRegion ==
    [][ (/\ Loaded
         /\ call'.op = "stretch"
         /\ RLe(StretchTotal(_get_zones(zone_cache, last_doc[1], extents[1], call'.axis)), R(0))
         /\ GtTol(RAbs(RSub(call'.targets[1], SizeOf(extents[1], call'.axis))), InvEps9))
        => (/\ call'.result \in {"NoElasticRegion", "DegenerateAxis"}
            /\ last_doc' = last_doc
            /\ call'.ret = None
            /\ call'.wrote = None)
      ]_vars

\* stretch() raised NoElasticRegion on a drawing without a stretch zone
C6_Witness ==
    /\ call.op = "stretch"
    /\ call.result = "NoElasticRegion"
    /\ Len(steps) = 1
    /\ RLe(StretchTotal(steps[1].zones), R(0))
    /\ last_doc[1] = steps[1].before

\* the zone invariant of a zone list over the axis range [lo, hi]
ZoneInvariant(zones, lo, hi) ==
    /\ zones # <<>>
    /\ zones[1].start_old = lo
    /\ zones[Len(zones)].end_old = hi
    /\ \A i \in 1..(Len(zones) - 1) :
          /\ zones[i].end_old = zones[i + 1].start_old
          /\ zones[i].zone_type # zones[i + 1].zone_type

\* C7: every zone list _get_zones returned for an axis with axis_min <
\* axis_max is non-empty, starts at axis_min, ends at axis_max, is
\* contiguous, and its tags alternate.
C7_ZoneInvariant ==
    \A k \in 1..Len(steps) :
        RLt(steps[k].bounds[1], steps[k].bounds[2])
            => ZoneInvariant(steps[k].zones, steps[k].bounds[1], steps[k].bounds[2])

RECURSIVE NewLengthSum(_, _)
NewLengthSum(mapping, i) ==
    IF i > Len(mapping) THEN R(0)
    ELSE RAdd(length_new(mapping[i]), NewLengthSum(mapping, i + 1))

\* C8: in every mapping built the segments follow the zones in order, the
\* first segment's start_new is axis_min, each end_new is the next
\* start_new, and the segments' new lengths (length_new) add up to the
\* target (within 1e-6).
C8_MappingInvariant ==
    \A k \in 1..Len(steps) :
        ~steps[k].raised =>
            /\ Len(steps[k].mapping) = Len(steps[k].zones)
            /\ \A i \in 1..Len(steps[k].zones) :
                  /\ steps[k].mapping[i].start_old = steps[k].zones[i].start_old
                  /\ steps[k].mapping[i].end_old = steps[k].zones[i].end_old
                  /\ steps[k].mapping[i].zone_type = steps[k].zones[i].zone_type
            /\ steps[k].mapping[1].start_new = steps[k].bounds[1]
            /\ \A i \in 1..(Len(steps[k].mapping) - 1) :
                  steps[k].mapping[i].end_new = steps[k].mapping[i + 1].start_new
            /\ Near(NewLengthSum(steps[k].mapping, 1), steps[k].target)

\* the entry of the zone cache for an axis, None when it has none
CacheEntry(cache, axis) == IF axis \in DOMAIN cache THEN Some(cache[axis]) ELSE None

\* C17: right after every successful load() the zone cache is empty for both
\* axes, and a call that computes and caches the zones of one axis neither
\* adds, changes nor removes the entry of the other axis.
C17_CachePerAxis ==
    [][/\ (call'.op = "load" /\ call'.result = "ok") => zone_cache' = NoCache
       /\ call'.op = "stretch" =>
             \A a \in Axes \ {call'.axis} :
                 CacheEntry(zone_cache', a) = CacheEntry(zone_cache, a)
       /\ call'.op = "stretch_both_axes" =>
             \A a \in Axes \ {steps'[i].axis : i \in 1..Len(steps')} :
                 CacheEntry(zone_cache', a) = CacheEntry(zone_cache, a)
    ]_vars

\* a stretch along Y has cached the zones of Y next to the zones of X that an
\* earlier stretch cached
C17_Witness ==
    /\ call.op = "stretch"
    /\ call.axis = "Y"
    /\ Len(steps) = 1
    /\ ~steps[1].cached
    /\ DOMAIN zone_cache = {"X", "Y"}

\* the axes stretch_both_axes processed, in order
StepAxes(ss) == [i \in 1..Len(ss) |-> ss[i].axis]

\* C18: stretch_both_axes processes X strictly before Y; an axis is processed
\* only if its extent differs from its target by more than 1e-6; when X was
\* processed the extents are recomputed from the transformed document before
\* the zones and the mapping of Y are built; the result is saved once, after
\* both stages, and nothing is saved when a stage raised.
C18_BothAxes ==
    [][(call'.op = "stretch_both_axes" /\ call'.result # "NotLoaded") =>
        LET needs_x_stretch ==
                GtTol(RAbs(RSub(SizeOf(extents[1], "X"), call'.targets[1])), InvEps6)
            needs_y_stretch ==
                GtTol(RAbs(RSub(SizeOf(extents[1], "Y"), call'.targets[2])), InvEps6)
            ran_x == \E i \in 1..Len(steps') : steps'[i].axis = "X"
            ran_y == \E i \in 1..Len(steps') : steps'[i].axis = "Y"
            raised == \E i \in 1..Len(steps') : steps'[i].raised
        IN /\ StepAxes(steps') \in {<<>>, <<"X">>, <<"Y">>, <<"X", "Y">>}
           /\ ran_x <=> needs_x_stretch
           /\ ran_y => needs_y_stretch
           /\ (needs_y_stretch /\ ~(ran_x /\ steps'[1].raised)) => ran_y
           /\ (ran_x /\ ~steps'[1].raised) =>
                 /\ extents' = Some(Extents(IF ran_y THEN steps'[2].before ELSE last_doc'[1]))
                 /\ ran_y => steps'[2].bounds = _get_axis_bounds(extents'[1], "Y")
           /\ raised <=> call'.result = "NoElasticRegion"
           /\ raised => call'.wrote = None
           /\ (~raised /\ (ran_x \/ ran_y)) =>
                 (call'.result = "ok" /\ call'.wrote = DefaultOutput(last_path))
           /\ (~ran_x /\ ~ran_y) => (call'.result = "same" /\ call'.wrote = None)
    ]_vars

\* both axes were processed, X first, and the result was saved
C18_Witness ==
    /\ call.op = "stretch_both_axes"
    /\ call.result = "ok"
    /\ StepAxes(steps) = <<"X", "Y">>
    /\ call.wrote # None
    /\ extents # Some(FileExtents[last_path])

C20_FailedEntityUntouched ==
    (call.op = "stretch" /\ Len(steps) = 1 /\ "fault" \in DOMAIN steps[1]) =>
        LET k == steps[1].fault[1]
        IN /\ call.result = "ok"
           /\ steps[1].mapped[k] = steps[1].before[k]
           /\ \A i \in 1..Len(steps[1].before) :
                 i # k => steps[1].mapped[i]
                            = MapEntity(steps[1].before[i], steps[1].mapping, steps[1].axis)

\* no entity of the document is classified fixed
NoFixedEntity(doc) == \A i \in 1..Len(doc) : ~_is_fixed_entity(doc[i])

\* a + (c - a) * T / (axis_max - axis_min), from the bounds the pass read
UniformScale(st, c) ==
    RAdd(StepAnchor(st),
         RDiv(RMul(RSub(c, StepAnchor(st)), st.target), RSub(st.bounds[2], st.bounds[1])))

\* C21: when no entity of the drawing is classified fixed, the zone list of
\* a pass is the single stretch zone [axis_min, axis_max], and the pass maps
\* every coordinate c on the active axis to
\* a + (c - a) * T / (axis_max - axis_min), a the anchor coordinate.
C21_UniformScale ==
    \A k \in 1..Len(steps) :
        (NoFixedEntity(steps[k].before) /\ ~steps[k].raised) =>
            /\ steps[k].zones = <<Zone(steps[k].bounds[1], steps[k].bounds[2], "stretch")>>
            /\ \A i \in 1..Len(steps[k].before) : \A j \in 1..Len(steps[k].before[i].pts) :
                  Coord(StepAfter(k)[i].pts[j], steps[k].axis)
                      = UniformScale(steps[k], Coord(steps[k].before[i].pts[j], steps[k].axis))

\* delta of a pass, from the bounds and the target it read
StepDelta(st) == RSub(st.target, RSub(st.bounds[2], st.bounds[1]))

\* C23: in every mapping built with stretch_total > 0 the new length of a
\* stretch zone is old_length + delta * (old_length / stretch_total), with
\* delta = target_length - (axis_max - axis_min): every stretch zone of
\* non-zero length is scaled by the one factor 1 + delta / stretch_total.
C23_Proportional ==
    \A k \in 1..Len(steps) :
        (~steps[k].raised /\ RLt(R(0), StretchTotal(steps[k].zones))) =>
            \A i \in 1..Len(steps[k].mapping) :
                steps[k].mapping[i].zone_type = "stretch" =>
                    /\ RSub(steps[k].mapping[i].end_new, steps[k].mapping[i].start_new)
                          = RAdd(ZoneLength(steps[k].zones[i]),
                                 RMul(StepDelta(steps[k]),
                                      RDiv(ZoneLength(steps[k].zones[i]),
                                           StretchTotal(steps[k].zones))))
                    /\ RLt(R(0), ZoneLength(steps[k].zones[i])) =>
                          RDiv(RSub(steps[k].mapping[i].end_new, steps[k].mapping[i].start_new),
                               ZoneLength(steps[k].zones[i]))
                              = RAdd(R(1), RDiv(StepDelta(steps[k]), StretchTotal(steps[k].zones)))

\* a pass with a length change built a mapping over two stretch zones of
\* different non-zero lengths
C23_Witness ==
    \E k \in 1..Len(steps) :
        /\ ~steps[k].raised
        /\ StepDelta(steps[k]) # R(0)
        /\ \E i, j \in 1..Len(steps[k].mapping) :
              /\ steps[k].mapping[i].zone_type = "stretch"
              /\ steps[k].mapping[j].zone_type = "stretch"
              /\ RLt(R(0), ZoneLength(steps[k].zones[i]))
              /\ RLt(ZoneLength(steps[k].zones[i]), ZoneLength(steps[k].zones[j]))

\* v lies in the old interval of the segment, bounds included, within 1e-9
Contains(v, seg) ==
    /\ ~GtTol(RSub(seg.start_old, v), InvEps9)
    /\ ~GtTol(RSub(v, seg.end_old), InvEps9)

\* C24: for a value v inside a segment's old interval (bounds included,
\* tolerance 1e-9) _map_value returns
\* start_new + (v - start_old) / old_length * new_length when the old length
\* is not below 1e-9 and v + (start_new - start_old) when it is, old_length
\* and new_length being the segment's length and length_new (its intervals'
\* lengths, not below 0); the first segment in order that contains v is the
\* one used; for v beyond the last segment's old end the result is
\* v + (last.end_new - last.end_old).
C24_MapValue ==
    (call.op = "_map_value") =>
        LET v == steps[1].value
            m == steps[1].mapping
            last == m[Len(m)]
        IN /\ \A i \in 1..Len(m) :
                 (Contains(v, m[i]) /\ \A j \in 1..(i - 1) : ~Contains(v, m[j])) =>
                     steps[1].mapped[1] =
                         IF LtTol(RMax(R(0), RSub(m[i].end_old, m[i].start_old)), InvEps9)
                         THEN RAdd(v, RSub(m[i].start_new, m[i].start_old))
                         ELSE RAdd(m[i].start_new,
                                   RMul(RDiv(RSub(v, m[i].start_old),
                                             RSub(m[i].end_old, m[i].start_old)),
                                        RMax(R(0), RSub(m[i].end_new, m[i].start_new))))
           /\ GtTol(RSub(v, last.end_old), InvEps9) =>
                 steps[1].mapped[1] = RAdd(v, RSub(last.end_new, last.end_old))

\* _map_value mapped a value on the border of two segments with the first
\* of them, which stretched it away from where the second would put it
C24_Witness ==
    /\ call.op = "_map_value"
    /\ Contains(steps[1].value, steps[1].mapping[1])
    /\ Contains(steps[1].value, steps[1].mapping[2])
    /\ RLt(R(0), SegLength(steps[1].mapping[1]))
    /\ steps[1].mapped[1] = MapInSegment(steps[1].value, steps[1].mapping[1])
    /\ steps[1].mapped[1] # steps[1].value

\* the clipped intervals of the fixed entities of the document a pass read,
\* within the bounds it read
StepFixedIntervals(st) ==
    {iv \in {<<RMax(st.bounds[1], _entity_interval(st.before[i], st.axis)[1]),
               RMin(st.bounds[2], _entity_interval(st.before[i], st.axis)[2])>> :
                i \in {j \in 1..Len(st.before) : _is_fixed_entity(st.before[j])}} :
        RLt(iv[1], iv[2])}

\* the fixed zones of the list that hold the interval
HoldingZones(zones, iv) ==
    {z \in 1..Len(zones) :
        /\ zones[z].zone_type = "fixed"
        /\ RLe(zones[z].start_old, iv[1])
        /\ RLe(iv[2], zones[z].end_old)}

\* C25: the clipped, non-empty interval of every fixed entity lies in
\* exactly one fixed zone of the list _get_zones returned; fixed intervals
\* that overlap or touch lie in the same fixed zone; no stretch zone meets
\* the interior of a fixed entity's clipped interval.
C25_FixedCoverage ==
    \A k \in 1..Len(steps) :
        /\ \A iv \in StepFixedIntervals(steps[k]) :
              /\ Cardinality(HoldingZones(steps[k].zones, iv)) = 1
              /\ \A z \in 1..Len(steps[k].zones) :
                    steps[k].zones[z].zone_type = "stretch" =>
                        \/ RLe(steps[k].zones[z].end_old, iv[1])
                        \/ RLe(iv[2], steps[k].zones[z].start_old)
        /\ \A iv, jv \in StepFixedIntervals(steps[k]) :
              (RLe(iv[1], jv[2]) /\ RLe(jv[1], iv[2])) =>
                  HoldingZones(steps[k].zones, iv) = HoldingZones(steps[k].zones, jv)

\* C26: after any sequence of load() calls, successful or failed,
\* last_path, last_doc, extents and zone_cache describe the same file: a
\* load() that fails leaves the four fields as they were, and a stretch()
\* that saves does so under the name of the file its extents were read from.
C26_LoadConsistent ==
    [][/\ (call'.op = "load" /\ call'.result # "ok")
             => UNCHANGED <<last_path, last_doc, extents, zone_cache>>
       /\ (call'.op = "stretch" /\ call'.wrote # None)
             => (Readable(last_path) /\ extents = Some(FileExtents[last_path]))]_vars

\* C27: whenever _get_zones returns a cached zone list, the list is the one
\* the segmentation would compute from the extents and the geometry at that
\* moment, also after stretch() or stretch_both_axes() have changed the
\* geometry on the same load.
C27_CacheCoherent ==
    \A k \in 1..Len(steps) :
        steps[k].cached =>
            steps[k].zones
                = ZonesWithin(steps[k].before, steps[k].axis, steps[k].bounds[1], steps[k].bounds[2])

\* the translation _apply_anchor_shift applied in a pass: the shift, or
\* nothing when the shift is below 1e-6
StepShift(st) ==
    With(RSub(StepAnchor(st), _map_value(StepAnchor(st), st.mapping)), LAMBDA shift :
        IF LtTol(RAbs(shift), InvEps6) THEN R(0) ELSE shift)

\* C30: in every mapping built the offset of the first segment,
\* start_new - start_old, is exactly zero, so an entity of a kind other than
\* LINE, polyline, SPLINE, CIRCLE, ARC and POINT (ELLIPSE among them) is not
\* displaced by the mapping step: a pass moves it by the anchor translation
\* only.
C30_FirstOffsetZero ==
    \A k \in 1..Len(steps) :
        ~steps[k].raised =>
            /\ steps[k].mapping[1].start_new = steps[k].mapping[1].start_old
            /\ \A i \in 1..Len(steps[k].before) :
                  steps[k].before[i].kind \notin MappedKinds =>
                      StepAfter(k)[i] = Translate(steps[k].before[i], steps[k].axis, StepShift(steps[k]))

(***************************************************************************)
(* Properties of the analyzer                                              *)
(***************************************************************************)
\* C9: a match_radius_to_base() call for a work file whose korpus number is
\* in the registry returns as target_length the arc length of the record's
\* arc1 if the name holds the outer mark and of its arc2 otherwise, and
\* leaves the registry as it was.
C9_TargetFromRegistry ==
    [][ (/\ matched'.op = "match_radius_to_base"
         /\ _extract_korpus_number(matched'.arg[1]) # None
         /\ _extract_korpus_number(matched'.arg[1])[1] \in DOMAIN bases)
        => (/\ matched'.result = "ok"
            /\ matched'.value[1].target_length =
                  IF \E i \in 1..Len(matched'.arg[1]) : matched'.arg[1][i] \in OuterMarks
                  THEN bases[_extract_korpus_number(matched'.arg[1])[1]].arc1.arc_length
                  ELSE bases[_extract_korpus_number(matched'.arg[1])[1]].arc2.arc_length
            /\ bases' = bases)
      ]_vars

\* an outer work file was matched to a record whose two arc lengths differ
C9_Witness ==
    /\ matched.op = "match_radius_to_base"
    /\ matched.result = "ok"
    /\ matched.value[1].is_outer
    /\ matched.value[1].korpus_number \in DOMAIN bases
    /\ matched.value[1].target_length = bases[matched.value[1].korpus_number].arc1.arc_length
    /\ bases[matched.value[1].korpus_number].arc1.arc_length
          # bases[matched.value[1].korpus_number].arc2.arc_length

\* the ARC entities of a drawing, in file order
ArcEntities(msp) == SelectSeq(msp, LAMBDA e : e.kind = "ARC")

\* ArcInfo a describes the ARC entity e
SameArc(a, e) ==
    /\ a.radius = e.r
    /\ a.center = <<e.pts[1][1], e.pts[1][2]>>
    /\ a.start_angle = e.sa
    /\ a.end_angle = e.ea

\* C10: every record of the registry comes from a drawing with at least two
\* ARC entities, and its arc1 and arc2 are two arcs of that drawing with
\* arc1.radius >= arc2.radius >= the radius of every other arc of it.
C10_TwoLargestArcs ==
    \A k \in DOMAIN bases :
        With(ArcEntities(BaseDrawing(bases[k].file_path)), LAMBDA arcs :
            /\ Len(arcs) >= 2
            /\ \E i \in 1..Len(arcs), j \in 1..Len(arcs) :
                  /\ i # j
                  /\ SameArc(bases[k].arc1, arcs[i])
                  /\ SameArc(bases[k].arc2, arcs[j])
                  /\ RLe(arcs[j].r, arcs[i].r)
                  /\ \A m \in 1..Len(arcs) : m \notin {i, j} => RLe(arcs[m].r, arcs[j].r))

\* a scan that skipped a drawing with fewer than two arcs and kept a record
\* of a drawing whose first arc is not among its two largest
C10_Witness ==
    /\ matched.op = "analyze_folder"
    /\ matched.result = "ok"
    /\ \E i \in 1..Len(matched.arg) :
          /\ matched.arg[i][1] = "Osnovanie"
          /\ _extract_korpus_number(matched.arg[i]) # None
          /\ Len(ArcEntities(BaseDrawing(matched.arg[i]))) < 2
          /\ \A k \in DOMAIN bases : bases[k].file_path # matched.arg[i]
    /\ \E k \in DOMAIN bases :
          With(ArcEntities(BaseDrawing(bases[k].file_path)), LAMBDA arcs :
              /\ Len(arcs) >= 3
              /\ RLt(arcs[1].r, bases[k].arc2.radius))

\* C11: a match_radius_to_base() call for a work file with a parsable korpus
\* number fails with UnknownAssembly exactly when that number is no key of
\* the registry; the error lists the keys of the registry, the registry is
\* unchanged and no RadiusFileInfo is returned.
C11_UnknownAssembly ==
    [][ (matched'.op = "match_radius_to_base"
            /\ _extract_korpus_number(matched'.arg[1]) # None)
        => /\ (matched'.result = "UnknownAssembly")
                  <=> (_extract_korpus_number(matched'.arg[1])[1] \notin DOMAIN bases)
           /\ (matched'.result = "UnknownAssembly")
                  => (/\ matched'.listed = DOMAIN bases
                      /\ matched'.value = None
                      /\ bases' = bases)
      ]_vars

\* a work file of an unknown korpus was refused by a registry with records
C11_Witness ==
    /\ matched.op = "match_radius_to_base"
    /\ matched.result = "UnknownAssembly"
    /\ matched.value = None
    /\ matched.listed = DOMAIN bases
    /\ DOMAIN bases # {}

\* the reference drawings a scan of the folder analyses, in scan order
ScanOrder(folder) == GlobBase(folder, "dxf") \o GlobBase(folder, "DXF")

\* the analysis of a reference drawing succeeds
Analysable(file_path) ==
    /\ _extract_korpus_number(file_path) # None
    /\ BaseReadable(file_path)
    /\ Len(ArcEntities(BaseDrawing(file_path))) >= 2

\* the positions of the scan whose drawing was analysed
AnalysedAt(folder) == {i \in 1..Len(ScanOrder(folder)) : Analysable(ScanOrder(folder)[i])}

\* C12 as stated: after analyze_folder the scan succeeded iff a reference
\* drawing was analysed, the registry then holds exactly the records of
\* the analysed drawings of this scan, and a scan without one fails with
\* NoReferencesFound.
C12_ScanKeepsAll ==
    matched.op = "analyze_folder" =>
        /\ (matched.result = "ok") <=> (AnalysedAt(matched.arg) # {})
        /\ (AnalysedAt(matched.arg) = {}) => (matched.result = "NoReferencesFound")
        /\ {bases[k].file_path : k \in DOMAIN bases}
              = {ScanOrder(matched.arg)[i] : i \in AnalysedAt(matched.arg)}

\* C12: after analyze_folder the scan succeeded iff a reference drawing was
\* analysed and failed with NoReferencesFound otherwise; the keys of the
\* registry are the korpus numbers of the analysed drawings of this scan,
\* and each key holds the record of the last analysed drawing of that
\* number in scan order (drawings that fail are skipped).
C12_ScanKeepsLast ==
    matched.op = "analyze_folder" =>
        /\ (matched.result = "ok") <=> (AnalysedAt(matched.arg) # {})
        /\ (AnalysedAt(matched.arg) = {}) => (matched.result = "NoReferencesFound")
        /\ DOMAIN bases = {_extract_korpus_number(ScanOrder(matched.arg)[i])[1] :
                              i \in AnalysedAt(matched.arg)}
        /\ \A k \in DOMAIN bases : \E i \in AnalysedAt(matched.arg) :
              /\ bases[k].file_path = ScanOrder(matched.arg)[i]
              /\ bases[k].korpus_number = k
              /\ _extract_korpus_number(ScanOrder(matched.arg)[i])[1] = k
              /\ \A j \in AnalysedAt(matched.arg) :
                    _extract_korpus_number(ScanOrder(matched.arg)[j])[1] = k => j <= i

\* a scan that skipped a failing drawing and analysed the one after it
C12_Witness ==
    /\ matched.op = "analyze_folder"
    /\ matched.result = "ok"
    /\ \E i \in 1..Len(ScanOrder(matched.arg)) : \E j \in AnalysedAt(matched.arg) :
          i < j /\ i \notin AnalysedAt(matched.arg)

(***************************************************************************)
(* Properties of the width check                                           *)
(***************************************************************************)
\* C13: every WidthCheckResult of check_widths has needs_adjustment iff it
\* has both files and |outer_width - inner_width| > tolerance (a difference
\* equal to the tolerance is not flagged); with one side only its
\* width_difference is 0 and needs_adjustment is false.
C13_NeedsAdjustment ==
    matched.op = "check_widths" =>
        \A i \in 1..Len(matched.value[1]) :
            With(matched.value[1][i], LAMBDA c :
                /\ c.needs_adjustment <=>
                      /\ c.outer_file # None /\ c.inner_file # None
                      /\ RLt(matched.arg[1], RAbs(RSub(c.outer_width[1], c.inner_width[1])))
                /\ (c.outer_file = None \/ c.inner_file = None)
                      => (c.width_difference = R(0) /\ ~c.needs_adjustment)
                /\ c.outer_file # None
                      => c.outer_width = Some(SizeOf(Extents(RadiusDrawing(c.outer_file[1])), "Y"))
                /\ c.inner_file # None
                      => c.inner_width = Some(SizeOf(Extents(RadiusDrawing(c.inner_file[1])), "Y")))

\* a check that met a difference equal to the tolerance (not flagged) and a
\* larger one (flagged)
C13_Witness ==
    /\ matched.op = "check_widths"
    /\ \E i \in 1..Len(matched.value[1]) :
          /\ has_both_files(matched.value[1][i])
          /\ RAbs(matched.value[1][i].width_difference) = matched.arg[1]
          /\ ~matched.value[1][i].needs_adjustment
    /\ \E i \in 1..Len(matched.value[1]) :
          /\ has_both_files(matched.value[1][i])
          /\ matched.value[1][i].needs_adjustment

\* the stretch calls align_widths made on one of the two drawings of a check
StretchCallsOn(calls, check) ==
    {j \in 1..Len(calls) :
        /\ calls[j].op = "stretch"
        /\ Some(calls[j].file) \in {check.outer_file, check.inner_file}}

\* C14: align_widths re-stretches, for each korpus that has both files and
\* needs adjustment, exactly one drawing: the inner one when use_outer_width
\* is true, the outer one otherwise, along Y to the measured width of the
\* other side, whose drawing is never loaded for stretching; the drawings of
\* the other korpuses are not stretched.
C14_AlignOneSide ==
    [][matched'.op = "align_widths" =>
        LET width_checks == check_widths(work_folder, <<1, 10>>)
            calls == matched'.value[1].calls
        IN \A i \in 1..Len(width_checks) :
            LET check == width_checks[i]
                process == IF matched'.arg[1] THEN check.inner_file ELSE check.outer_file
                reference == IF matched'.arg[1] THEN check.outer_file ELSE check.inner_file
                target == IF matched'.arg[1] THEN check.outer_width ELSE check.inner_width
            IN IF has_both_files(check) /\ check.needs_adjustment
               THEN /\ Cardinality(StretchCallsOn(calls, check)) = 1
                    /\ \A j \in StretchCallsOn(calls, check) :
                          /\ Some(calls[j].file) = process
                          /\ calls[j].axis = "Y"
                          /\ Some(calls[j].target) = target
                    /\ \A j \in 1..Len(calls) : Some(calls[j].file) # reference
               ELSE \A j \in 1..Len(calls) :
                        Some(calls[j].file) \notin {check.outer_file, check.inner_file}
    ]_vars

\* the stretch calls of an align_widths run that saved a drawing
SavingCalls(done) ==
    {i \in 1..Len(done.calls) : done.calls[i].op = "stretch" /\ done.calls[i].wrote # None}

\* C29: align_widths never writes over an original work drawing: every
\* aligned drawing is saved as '<stem>_stretch.dxf', a name that
\* find_radius_files leaves out, so that check_widths right after
\* align_widths on the same folder (with the default tolerance 0.1)
\* returns the widths and the needs_adjustment flags it returned before.
C29_OriginalsKept ==
    [][matched'.op = "align_widths" =>
          With(<<matched'.value[1].calls, find_radius_files(work_folder)>>, LAMBDA t :
              /\ \A i \in SavingCalls(matched'.value[1]) :
                    /\ t[1][i].wrote = StretchName(t[1][i].file)
                    /\ t[1][i].wrote # t[1][i].file
                    /\ \A j \in 1..Len(t[2]) : t[1][i].wrote # t[2][j]
              /\ \/ work_folder' = work_folder
                 \/ check_widths(work_folder', <<1, 10>>) = check_widths(work_folder, <<1, 10>>))]_vars

\* align_widths saved an aligned drawing into the folder, and check_widths
\* on the folder still flags a korpus
C29_Witness ==
    /\ matched.op = "align_widths"
    /\ \E i \in SavingCalls(matched.value[1]) :
          /\ matched.value[1].calls[i].wrote \in work_folder
          /\ matched.value[1].calls[i].file \in work_folder
    /\ \E i \in 1..Len(check_widths(work_folder, <<1, 10>>)) :
          check_widths(work_folder, <<1, 10>>)[i].needs_adjustment

(***************************************************************************)
(* Properties of the batch drivers                                         *)
(***************************************************************************)
BatchDone == matched.op \in {"_batch_process", "_batch_process_both_axes"}

\* C15: a batch over N work files attempts every file exactly once, in the
\* order of the list, whatever fails; every file is in exactly one of the
\* three tallies and success_count + skip_count + error_count = N.
C15_EveryFileOnce ==
    BatchDone =>
        With(matched.value[1], LAMBDA report :
            /\ Len(report.log) = Len(report.files)
            /\ \A i \in 1..Len(report.files) :
                  /\ report.log[i].file = report.files[i]
                  /\ report.log[i].tally \in {"success", "skip", "error"}
            /\ report.success_count + report.skip_count + report.error_count
                  = Len(report.files)
            /\ report.success_count
                  = Cardinality({i \in 1..Len(report.log) : report.log[i].tally = "success"})
            /\ report.skip_count
                  = Cardinality({i \in 1..Len(report.log) : report.log[i].tally = "skip"})
            /\ report.error_count
                  = Cardinality({i \in 1..Len(report.log) : report.log[i].tally = "error"}))

\* a batch of three files with one file in each tally, the failed one before
\* the last
C15_Witness ==
    /\ BatchDone
    /\ Len(matched.value[1].files) = 3
    /\ matched.value[1].success_count = 1
    /\ matched.value[1].skip_count = 1
    /\ matched.value[1].error_count = 1
    /\ matched.value[1].log[3].tally # "error"

\* the files of a finished batch whose reference resolution failed
Unresolved(log) ==
    {i \in 1..Len(log) : log[i].reason \in {"UnknownAssembly", "UnparsableFilename"}}

\* C16 as stated: a file whose reference resolution fails with
\* UnknownAssembly or UnparsableFilename is counted as skipped, not as an
\* error, and the batch goes on with the next file.
C16_UnresolvedSkipped ==
    BatchDone =>
        /\ \A i \in Unresolved(matched.value[1].log) : matched.value[1].log[i].tally = "skip"
        /\ Len(matched.value[1].log) = Len(matched.value[1].files)

\* C16: a file whose reference resolution fails with UnknownAssembly is
\* counted as skipped, one whose name holds no assembly identifier
\* (UnparsableFilename) is counted as an error, and in both cases the batch
\* goes on with the next file.
C16_UnknownSkippedUnparsableError ==
    BatchDone =>
        /\ \A i \in Unresolved(matched.value[1].log) :
              matched.value[1].log[i].tally =
                  IF matched.value[1].log[i].reason = "UnknownAssembly" THEN "skip" ELSE "error"
        /\ Len(matched.value[1].log) = Len(matched.value[1].files)
        /\ matched.value[1].skip_count
              >= Cardinality({i \in Unresolved(matched.value[1].log) :
                                 matched.value[1].log[i].reason = "UnknownAssembly"})
        /\ matched.value[1].error_count
              >= Cardinality({i \in Unresolved(matched.value[1].log) :
                                 matched.value[1].log[i].reason = "UnparsableFilename"})

\* a batch that met a file of an unknown assembly, then a file with an
\* unparsable name, and stretched a file after the first of them
C16_Witness ==
    /\ BatchDone
    /\ \E i, j, k \in 1..Len(matched.value[1].log) :
          /\ matched.value[1].log[i].reason = "UnknownAssembly"
          /\ matched.value[1].log[j].reason = "UnparsableFilename"
          /\ i < k
          /\ matched.value[1].log[k].tally = "success"

\* the outputs of the batch a step ran are named '<stem>_stretch.dxf', none
\* of them is the file it was made from or a work file of the folder
DefaultNaming(report) ==
    \A i \in 1..Len(report.log) :
        report.log[i].wrote # None =>
            /\ report.log[i].wrote = StretchName(report.log[i].file)
            /\ report.log[i].wrote # report.log[i].file
            /\ \A j \in 1..Len(report.files) : report.log[i].wrote # report.files[j]

\* C22: with no destination given the output of a stretch is
\* '<input stem>_stretch.dxf', never the input path itself, and
\* find_radius_files leaves out every file whose stem ends with the reserved
\* suffix: a batch run with default naming leaves the list of work files
\* find_radius_files returns for the folder as it was.
C22_RescanStable ==
    [][/\ find_radius_files(work_folder') = find_radius_files(work_folder)
       /\ DefaultNaming(matched'.value[1])]_vars

\* a batch wrote an output the folder now holds beside the file it was made
\* from, and the folder held outputs of an earlier run before
C22_Witness ==
    /\ BatchDone
    /\ \E i \in 1..Len(matched.value[1].log) :
          /\ matched.value[1].log[i].wrote # None
          /\ matched.value[1].log[i].wrote \in work_folder
          /\ matched.value[1].log[i].file \in work_folder
    /\ \E f \in work_folder :
          /\ f \notin Written(matched.value[1].log)
          /\ Stem(f)[Len(Stem(f))] = "_stretch"

(***************************************************************************)
(* Properties of the FlatPatternService                                    *)
(***************************************************************************)
Measured(session) == session.current_info # None /\ session.current_dxf # None
Stretched(session) == session.stretched_path # None

\* what a step of the service did, read from the call it leaves
MeasureOk == call'.op = "load" /\ call'.result = "ok"
StretchOk == call'.op = "stretch" /\ call'.ret # None
SaveOk == call'.op = "save_stretched" /\ call'.result = "ok"

\* the parts of the session ordering that do not depend on failed measures:
\* stretch() succeeds only on a measured session and otherwise raises and
\* changes nothing; a session is measured only from a successful measure()
\* on, and not beyond clear(); save_stretched() succeeds only on a stretched
\* session; a successful measure() and clear() reset the fields
SessionSteps ==
    /\ StretchOk => Measured(service)
    /\ (call'.op = "stretch" /\ ~Measured(service)) =>
          /\ call'.result = "NotMeasured"
          /\ UNCHANGED <<last_doc, last_path, extents, zone_cache, service, work_folder>>
    /\ Measured(service') => (MeasureOk \/ (Measured(service) /\ call'.op # "clear"))
    /\ SaveOk => Stretched(service)
    /\ MeasureOk => service'.stretched_path = None
    /\ call'.op = "clear" => (~Measured(service') /\ ~Stretched(service')
                                /\ service'.current_info = None /\ service'.current_dxf = None)

\* C28 as stated: stretch() succeeds only after a successful measure() with
\* no clear() in between, otherwise it raises and changes nothing;
\* save_stretched() succeeds only after a successful stretch() since the
\* last measure() call, successful or not; every successful measure() resets
\* stretched_path; clear() resets current_info, current_dxf and
\* stretched_path.
C28_SinceLastMeasure ==
    [][/\ SessionSteps
       /\ Stretched(service') =>
             (StretchOk \/ (Stretched(service) /\ call'.op \notin {"load", "clear"}))]_vars

\* C28: stretch() succeeds only after a successful measure() with no clear()
\* in between, otherwise it raises and changes nothing; save_stretched()
\* succeeds only after a successful stretch() since the last successful
\* measure(); every successful measure() resets stretched_path; clear()
\* resets current_info, current_dxf and stretched_path, so that stretch() and
\* save_stretched() fail until the next successful measure().
C28_SessionOrdering ==
    [][/\ SessionSteps
       /\ Stretched(service') =>
             (StretchOk \/ (Stretched(service) /\ ~MeasureOk /\ call'.op # "clear"))]_vars

\* save_stretched() succeeded on the result of a stretch although a
\* measure() of an unreadable file has failed since
C28_Witness ==
    /\ call.op = "save_stretched"
    /\ call.result = "ok"
    /\ last_path = UnreadableFile
    /\ Measured(service)
    /\ Stretched(service)
    /\ <<"saved">> \in work_folder

=============================================================================
